---- MODULE Spec2Model ----
(***************************************************************************)
(* Model of the geometry locator of src/src/geometry.cpp:                  *)
(*   check_cell_overlap, find_cell_inner, find_cell, cross_lattice,        *)
(*   distance_to_boundary.                                                 *)
(*                                                                         *)
(* Space is one-dimensional and integral: a position is an integer x, a    *)
(* direction is u in {-1, +1}, a rotation is the scalar +1 or -1, lattice  *)
(* indices have one component (the y and z components stay 0).  Cell,      *)
(* Universe, Lattice and Particle are declared in headers that are not     *)
(* part of the sources at hand; their operations are modelled from the     *)
(* specification's data model.                                             *)
(***************************************************************************)
EXTENDS Integers, Sequences, FiniteSets, TLC

\* ------------------------------------------------------------------------
\* Program constants
\* ------------------------------------------------------------------------
MAX_COORD == 10
C_NONE == -1
F90_NONE == 0
NO_OUTER_UNIVERSE == -1
MATERIAL_VOID == -1
Infinity == 1000000000
\* FP_REL_PRECISION is 1e-5; the model keeps its reciprocal
FP_REL_PRECISION_INV == 100000
FILL_MATERIAL == "MATERIAL"
FILL_UNIVERSE == "UNIVERSE"
FILL_LATTICE == "LATTICE"

\* ------------------------------------------------------------------------
\* Bounds of the model
\* ------------------------------------------------------------------------
\* number of universes of the nested chain below cell 6 (frames 1..Depth)
Depth == 10
\* the neighbor lists are explored up to this number of entries in total
MaxNeighbors == 2
\* distance_to_boundary is explored on particles of at most this many frames
MaxDtbLevels == 3
\* a distance large enough for FP_REL_PRECISION to separate its neighbours
MidDist == 200000
\* positions of the root universe handed to the locator: 0..MaxX
MaxX == 19
\* number of worker threads of the concurrent specification
NThreads == 2
\* each thread runs check_cell_overlap at most this many times
MaxOps == 2

\* the frames of a particle: 0..MAX_COORD-1 are the array coord[MAX_COORD],
\* the indices from MAX_COORD on are the memory behind the array
NFrames == IF Depth + 2 > MAX_COORD THEN Depth + 2 ELSE MAX_COORD
FrameIdx == 0 .. (NFrames - 1)
Dirs == {-1, 1}
\* the positions the particles of the worker threads are sourced at
ThreadX == {1, 2, 3, 5}
\* the values an uninitialised int is explored with
JunkValues == {0, 7}

Min(S) == CHOOSE a \in S : \A b \in S : a <= b
Max(S) == CHOOSE a \in S : \A b \in S : a >= b
Abs(a) == IF a < 0 THEN -a ELSE a
Range(s) == {s[k] : k \in 1..Len(s)}

\* ------------------------------------------------------------------------
\* The geometry (model::cells, model::universes, model::lattices)
\* ------------------------------------------------------------------------
root_universe == 0

MkCell(u, t, f, lo, hi, tr, rot, mats, kts, off, simple) ==
  [universe_ |-> u, type_ |-> t, fill_ |-> f, lo |-> lo, hi |-> hi,
   translation_ |-> tr, rotation_ |-> rot, material_ |-> mats,
   sqrtkT_ |-> kts, offset_ |-> off, simple_ |-> simple]

\* cells 0..10 are fixed, cells 11..10+Depth are the nested chain
NCells == 11 + Depth
CellIdx == 0 .. (NCells - 1)

ChainUniverse(k) == 4 + k
ChainCell(k) == 10 + k

cells == [c \in CellIdx |->
  CASE c = 0 -> MkCell(0, FILL_MATERIAL, C_NONE, 0, 2, 0, 0, <<0>>, <<3>>, 0, TRUE)
    [] c = 1 -> MkCell(0, FILL_MATERIAL, C_NONE, 2, 3, 0, 0, <<1>>, <<4>>, 0, TRUE)
    [] c = 2 -> MkCell(0, FILL_UNIVERSE, 1, 2, 4, 2, 0, <<>>, <<>>, 0, TRUE)
    [] c = 3 -> MkCell(0, FILL_MATERIAL, C_NONE, 7, 9, 0, 0, <<MATERIAL_VOID>>, <<3>>, 0, FALSE)
    [] c = 4 -> MkCell(0, FILL_LATTICE, 0, 4, 10, 0, 0, <<>>, <<>>, 0, TRUE)
    [] c = 5 -> MkCell(0, FILL_LATTICE, 1, 10, 16, 0, 0, <<>>, <<>>, 0, TRUE)
    [] c = 6 -> MkCell(0, FILL_UNIVERSE, ChainUniverse(1), 16, 18, 16, 0, <<>>, <<>>, 0, TRUE)
    [] c = 7 -> MkCell(1, FILL_MATERIAL, C_NONE, 0, 2, 0, 0, <<1>>, <<4>>, 0, FALSE)
    [] c = 8 -> MkCell(2, FILL_MATERIAL, C_NONE, -1, 1, 0, 0, <<0, 1>>, <<5, 6>>, 0, TRUE)
    [] c = 9 -> MkCell(3, FILL_MATERIAL, C_NONE, -1, 0, 0, 0, <<1>>, <<4>>, 0, TRUE)
    [] c = 10 -> MkCell(4, FILL_UNIVERSE, 1, -1, 1, 0, -1, <<>>, <<>>, 0, TRUE)
    [] c > 10 /\ c < 10 + Depth ->
         MkCell(ChainUniverse(c - 10), FILL_UNIVERSE, ChainUniverse(c - 9),
                -100, 100, 0, 0, <<>>, <<>>, 0, TRUE)
    [] OTHER -> MkCell(ChainUniverse(Depth), FILL_MATERIAL, C_NONE,
                       -100, 100, 0, 0, <<0>>, <<3>>, 0, TRUE)]

NUniverses == 5 + Depth
UnivIdx == 0 .. (NUniverses - 1)

\* Universe::cells_, the search order of the full sweep
universes == [v \in UnivIdx |->
  CASE v = 0 -> [cells_ |-> <<0, 1, 2, 3, 4, 5, 6>>]
    [] v = 1 -> [cells_ |-> <<7>>]
    [] v = 2 -> [cells_ |-> <<8>>]
    [] v = 3 -> [cells_ |-> <<9>>]
    [] v = 4 -> [cells_ |-> <<10>>]
    [] OTHER -> [cells_ |-> <<ChainCell(v - 4)>>]]

LatIdx == {0, 1}
lattices == [l \in LatIdx |->
  IF l = 0
    THEN [lower_left |-> 4, pitch |-> 2, n |-> 2, universes |-> <<2, 3>>,
          outer_ |-> NO_OUTER_UNIVERSE, offsets |-> <<0, 1>>]
    ELSE [lower_left |-> 10, pitch |-> 2, n |-> 2, universes |-> <<2, 4>>,
          outer_ |-> 1, offsets |-> <<1, 0>>]]

\* Cell::contains(r, u, surface): the region is the interval [lo, hi]; on a
\* bounding surface the direction decides the side
contains(c, x, u) ==
  \/ cells[c].lo < x /\ x < cells[c].hi
  \/ x = cells[c].lo /\ u > 0
  \/ x = cells[c].hi /\ u < 0

\* Lattice::get_indices of the position r + TINY_BIT * u
get_indices(lat, x, u) == ((2 * (x - lat.lower_left)) + u) \div (2 * lat.pitch)

\* Lattice::get_local_position
get_local_position(lat, x, i) ==
  x - (lat.lower_left + (i * lat.pitch) + (lat.pitch \div 2))

\* Lattice::are_valid_indices
are_valid_indices(lat, i) == 0 <= i /\ i < lat.n

\* Lattice::operator[]
LatAt(lat, i) == lat.universes[i + 1]

\* Lattice::offset(map, i_xyz)
LatOffset(lat, i) == lat.offsets[i + 1]

\* ------------------------------------------------------------------------
\* The particle
\* ------------------------------------------------------------------------
\* LocalCoord::reset: no universe, no cell, no lattice, not rotated
ResetCoord(f) ==
  [f EXCEPT !.universe = C_NONE, !.cell = C_NONE, !.lattice = F90_NONE,
            !.lattice_x = 0, !.rotated = FALSE]

BlankCoord ==
  [universe |-> C_NONE, cell |-> C_NONE, lattice |-> F90_NONE,
   lattice_x |-> 0, xyz |-> 0, uvw |-> 1, rotated |-> FALSE]

\* a particle as its constructor leaves it, placed at x with direction u
NewParticle(x, u) ==
  [n_coord |-> 1,
   coord |-> [i \in FrameIdx |->
                IF i = 0 THEN [BlankCoord EXCEPT !.xyz = x, !.uvw = u]
                         ELSE BlankCoord],
   material |-> C_NONE, sqrtkT |-> 0, cell_instance |-> 0, alive |-> TRUE]

\* ------------------------------------------------------------------------
\* find_cell_inner
\* ------------------------------------------------------------------------
\* const NeighborList* neighbor_list: the null pointer or a list
NullList == [null |-> TRUE, list |-> <<>>]
ListPtr(s) == [null |-> FALSE, list |-> s]

\* the candidate test without the universe check of lines 77-78
MutCellOfAnyUniverse(p, i_cell) ==
  contains(i_cell, p.coord[p.n_coord - 1].xyz, p.coord[p.n_coord - 1].uvw)

\* lines 77-84 and 98-105: the candidate is a cell of the frame's universe
\* and contains the particle
CellMatches(p, i_cell) ==
  /\ cells[i_cell].universe_ = p.coord[p.n_coord - 1].universe
  /\ contains(i_cell, p.coord[p.n_coord - 1].xyz, p.coord[p.n_coord - 1].uvw)

\* the loops of lines 73-89 and 94-110: the first candidate that matches, or
\* C_NONE
FirstContaining(p, cand) ==
  LET hits == {k \in 1..Len(cand) : CellMatches(p, cand[k])}
  IN IF hits = {} THEN C_NONE ELSE cand[Min(hits)]

\* lines 127-146: the distribcell instance of material cell c
CellInstance(p, c) ==
  LET Term(i) ==
        LET c_i == cells[p.coord[i].cell]
        IN IF c_i.type_ = FILL_UNIVERSE THEN c_i.offset_
           ELSE IF c_i.type_ = FILL_LATTICE
             THEN LET lat == lattices[p.coord[i + 1].lattice - 1]
                  IN IF are_valid_indices(lat, p.coord[i + 1].lattice_x)
                       THEN LatOffset(lat, p.coord[i + 1].lattice_x)
                       ELSE 0
             ELSE 0
      Sum[i \in 0..p.n_coord] ==
        IF i = p.n_coord THEN 0 ELSE Term(i) + Sum[i + 1]
  IN IF Len(cells[c].material_) > 1 \/ Len(cells[c].sqrtkT_) > 1
       THEN Sum[0] ELSE 0

\* EnterMaterial with a frame of its own pushed for the material
MutMaterialFrame(p, c) ==
  LET inst == CellInstance(p, c)
      mat == IF Len(cells[c].material_) > 1
               THEN cells[c].material_[inst + 1] ELSE cells[c].material_[1]
      kT == IF Len(cells[c].sqrtkT_) > 1
               THEN cells[c].sqrtkT_[inst + 1] ELSE cells[c].sqrtkT_[1]
  IN [p EXCEPT !.cell_instance = inst,
               !.material = IF mat = MATERIAL_VOID THEN MATERIAL_VOID ELSE mat + 1,
               !.sqrtkT = kT,
               !.coord[p.n_coord] = p.coord[p.n_coord - 1],
               !.n_coord = p.n_coord + 1]

\* lines 122-168: the terminal frame, a material cell
EnterMaterial(p, c) ==
  LET inst == CellInstance(p, c)
      mat == IF Len(cells[c].material_) > 1
               THEN cells[c].material_[inst + 1] ELSE cells[c].material_[1]
      kT == IF Len(cells[c].sqrtkT_) > 1
               THEN cells[c].sqrtkT_[inst + 1] ELSE cells[c].sqrtkT_[1]
  IN [p EXCEPT !.cell_instance = inst,
               !.material = IF mat = MATERIAL_VOID THEN MATERIAL_VOID ELSE mat + 1,
               !.sqrtkT = kT]

\* lines 170-212: a lower universe; frame n_coord is written, then n_coord
\* is incremented
EnterUniverse(p, c) ==
  LET n == p.n_coord
      up == p.coord[n - 1]
      x0 == up.xyz - cells[c].translation_
      rot == cells[c].rotation_
  IN [p EXCEPT !.coord[n] =
                 [@ EXCEPT !.universe = cells[c].fill_,
                           !.xyz = IF rot # 0 THEN x0 * rot ELSE x0,
                           !.uvw = IF rot # 0 THEN up.uvw * rot ELSE up.uvw,
                           !.rotated = IF rot # 0 THEN TRUE ELSE @],
               !.n_coord = n + 1]

\* lines 215-240: a lower lattice; frame n_coord gets the local position, the
\* lattice and the tile indices (the universe and n_coord are set after)
EnterLattice(p, c) ==
  LET n == p.n_coord
      up == p.coord[n - 1]
      lat == lattices[cells[c].fill_]
      i_xyz == get_indices(lat, up.xyz, up.uvw)
  IN [p EXCEPT !.coord[n] =
                 [@ EXCEPT !.xyz = get_local_position(lat, up.xyz, i_xyz),
                           !.uvw = up.uvw,
                           !.lattice = cells[c].fill_ + 1,
                           !.lattice_x = i_xyz]]

\* lines 243-256: the universe of the tile, the outer universe, or none
TileUniverse(lat, i_xyz) ==
  IF are_valid_indices(lat, i_xyz) THEN LatAt(lat, i_xyz)
  ELSE IF lat.outer_ # NO_OUTER_UNIVERSE THEN lat.outer_
  ELSE C_NONE

\* what a call of find_cell_inner returns and did: the particle after the
\* call, the value returned, the number of warnings issued, and whether a
\* frame of index >= MAX_COORD was read or written
Inner(q, found, warn, oob) ==
  [p |-> q, found |-> found, warn |-> warn, oob |-> oob]

\* the result r of a callee, in a caller that wrote frame n before the call
AfterWrite(r, n) == [r EXCEPT !.oob = @ \/ n >= MAX_COORD]

\* the result r of the dispatch after a search that read behind the array
AfterSearch(r, behind) == [r EXCEPT !.oob = @ \/ behind]

\* lines 72 and 91-93: the candidates of the search
Candidates(p, neighbor_list) ==
  IF neighbor_list.null
    THEN universes[p.coord[p.n_coord - 1].universe].cells_
    ELSE neighbor_list.list

\* lines 72-110: the search reads frame n_coord - 1 and binds the cell found
\* to it, behind the array when the call is entered with n_coord > MAX_COORD
BehindArray(p) == p.n_coord - 1 >= MAX_COORD

\* lines 72-110: frame n_coord - 1 is read for the universe swept (line 92)
\* and in every turn of the loop over a list (line 77); an empty list reads
\* no frame
SearchReads(p, neighbor_list) ==
  BehindArray(p) /\ (neighbor_list.null \/ neighbor_list.list # <<>>)

\* lines 85 and 106: the cell found is bound to the deepest frame
BindCell(p, i_cell) == [p EXCEPT !.coord[p.n_coord - 1].cell = i_cell]

\* lines 258-259: the frame written becomes the deepest frame
Descend(p, univ) ==
  [p EXCEPT !.coord[p.n_coord].universe = univ, !.n_coord = p.n_coord + 1]

RECURSIVE find_cell_inner(_, _)
RECURSIVE EnterCell(_, _)
RECURSIVE EnterTile(_, _)

\* EnterTile with the particle marked as lost where no universe fills the
\* tile
EnterTileLost(p, univ) ==
  IF univ = C_NONE
    THEN Inner([p EXCEPT !.alive = FALSE], FALSE, 1, p.n_coord >= MAX_COORD)
    ELSE AfterWrite(find_cell_inner(Descend(p, univ), NullList), p.n_coord)

\* lines 243-260: p has the lattice frame written at index n_coord
EnterTile(p, univ) ==
  IF univ = C_NONE
    THEN Inner(p, FALSE, 1, p.n_coord >= MAX_COORD)
    ELSE AfterWrite(find_cell_inner(Descend(p, univ), NullList), p.n_coord)

\* EnterCell with a cell filled by a universe taken for the cell of the
\* particle, without the descent into the universe
EnterCellAnyFill(p, i_cell) ==
  IF i_cell = C_NONE
    THEN Inner(p, FALSE, 0, FALSE)
  ELSE IF cells[i_cell].type_ = FILL_MATERIAL
    THEN Inner(EnterMaterial(BindCell(p, i_cell), i_cell), TRUE, 0,
               BehindArray(p))
  ELSE IF cells[i_cell].type_ = FILL_UNIVERSE
    THEN Inner(BindCell(p, i_cell), TRUE, 0, BehindArray(p))
  ELSE EnterTile(EnterLattice(BindCell(p, i_cell), i_cell),
                 TileUniverse(lattices[cells[i_cell].fill_],
                              get_indices(lattices[cells[i_cell].fill_],
                                          p.coord[p.n_coord - 1].xyz,
                                          p.coord[p.n_coord - 1].uvw)))

\* lines 120-264: the dispatch on the fill type of the cell found
EnterCell(p, i_cell) ==
  IF i_cell = C_NONE
    THEN Inner(p, FALSE, 0, FALSE)
  ELSE IF cells[i_cell].type_ = FILL_MATERIAL
    THEN Inner(EnterMaterial(BindCell(p, i_cell), i_cell), TRUE, 0,
               BehindArray(p))
  ELSE IF cells[i_cell].type_ = FILL_UNIVERSE
    THEN AfterWrite(find_cell_inner(EnterUniverse(BindCell(p, i_cell), i_cell),
                                    NullList), p.n_coord)
  ELSE EnterTile(EnterLattice(BindCell(p, i_cell), i_cell),
                 TileUniverse(lattices[cells[i_cell].fill_],
                              get_indices(lattices[cells[i_cell].fill_],
                                          p.coord[p.n_coord - 1].xyz,
                                          p.coord[p.n_coord - 1].uvw)))

\* find_cell_inner(p, neighbor_list)
find_cell_inner(p, neighbor_list) ==
  AfterSearch(EnterCell(p, FirstContaining(p, Candidates(p, neighbor_list))),
              SearchReads(p, neighbor_list))

\* ------------------------------------------------------------------------
\* find_cell
\* ------------------------------------------------------------------------
\* lines 273-278: the root universe when the deepest frame has none
SeedRoot(p) ==
  IF p.coord[p.n_coord - 1].universe = C_NONE
    THEN [p EXCEPT !.coord[0].universe = root_universe, !.n_coord = 1]
    ELSE p

\* lines 280-283: the reset of the frames n_coord .. MAX_COORD-1
ResetDeeper(p) ==
  [p EXCEPT !.coord = [i \in FrameIdx |->
                         IF i >= p.n_coord /\ i < MAX_COORD
                           THEN ResetCoord(p.coord[i]) ELSE p.coord[i]]]

PrepareFrames(p) == ResetDeeper(SeedRoot(p))

\* the number of entries of all neighbor lists
TotalNeighbors(nb) ==
  LET Sum[c \in 0..NCells] == IF c = NCells THEN 0 ELSE Len(nb[c]) + Sum[c + 1]
  IN Sum[0]

\* NeighborList::push_back as one thread sees it: the cell id is appended to
\* the list
push_back(list, v) == Append(list, v)

\* line 300: c.neighbors_.push_back(cell)
PushBack(nb, c, v) == [nb EXCEPT ![c] = push_back(@, v)]

\* what a call of find_cell returns and did: r is the result of the last
\* find_cell_inner, nb the neighbor lists after the call, nbfound whether the
\* search of the neighbor list found the particle, lvl and prev the level
\* searched and the cell the particle was in there
Outer(r, warn, oob, nb, nbfound, lvl, prev) ==
  [p |-> r.p, found |-> r.found, warn |-> warn, oob |-> oob, nb |-> nb,
   nbfound |-> nbfound, lvl |-> lvl, prev |-> prev]

\* AfterSweep with the cell of the deepest frame appended instead of the cell
\* of the frame searched
AfterSweepDeepest(r1, r2, nb, lvl, prev) ==
  Outer(r2, r1.warn + r2.warn, r1.oob \/ r2.oob,
        IF r2.found
          THEN PushBack(nb, prev, r2.p.coord[r2.p.n_coord - 1].cell) ELSE nb,
        FALSE, lvl, prev)

\* lines 299-301: the sweep r2 after the failed search r1 of the list of cell
\* prev at level lvl
AfterSweep(r1, r2, nb, lvl, prev) ==
  Outer(r2, r1.warn + r2.warn, r1.oob \/ r2.oob,
        IF r2.found THEN PushBack(nb, prev, r2.p.coord[lvl].cell) ELSE nb,
        FALSE, lvl, prev)

\* lines 293-294: r1 is the search of the neighbor list
AfterNeighbors(r1, nb, lvl, prev) ==
  IF r1.found
    THEN Outer(r1, r1.warn, r1.oob, nb, TRUE, lvl, prev)
    ELSE AfterSweep(r1, find_cell_inner(r1.p, NullList), nb, lvl, prev)

\* line 305: r is the sweep of the universe
AfterPlainSweep(r, nb, lvl, prev) ==
  Outer(r, r.warn, r.oob, nb, FALSE, lvl, prev)

\* lines 285-306, on the particle p0 with its frames prepared
Search(p0, use_neighbor_lists, nb) ==
  IF use_neighbor_lists
    THEN AfterNeighbors(
           find_cell_inner(p0, ListPtr(nb[p0.coord[p0.n_coord - 1].cell])),
           nb, p0.n_coord - 1, p0.coord[p0.n_coord - 1].cell)
    ELSE AfterPlainSweep(find_cell_inner(p0, NullList), nb, p0.n_coord - 1,
                         p0.coord[p0.n_coord - 1].cell)

\* find_cell(p, use_neighbor_lists) on the neighbor lists nb
find_cell(p, use_neighbor_lists, nb) ==
  Search(PrepareFrames(p), use_neighbor_lists, nb)

\* ------------------------------------------------------------------------
\* cross_lattice
\* ------------------------------------------------------------------------
\* Particle::mark_as_lost
mark_as_lost(p) == [p EXCEPT !.alive = FALSE]

\* lines 326-337: the translated tile indices and the position in that tile
TranslateTile(p, lattice_translation) ==
  LET n == p.n_coord
      lat == lattices[p.coord[n - 1].lattice - 1]
      i_xyz == p.coord[n - 1].lattice_x + lattice_translation
  IN [p EXCEPT !.coord[n - 1].lattice_x = i_xyz,
               !.coord[n - 1].xyz =
                  get_local_position(lat, p.coord[n - 2].xyz, i_xyz)]

\* what a call of cross_lattice did: the particle after the call, the value
\* of the last find_cell, the number of find_cell calls and of those that
\* failed, whether the new indices were valid, the number of mark_as_lost calls
Crossed(q, found, finds, fails, valid, warn, oob, lost) ==
  [p |-> q, found |-> found, finds |-> finds, fails |-> fails,
   valid |-> valid, warn |-> warn, oob |-> oob, lost |-> lost]

\* lines 343-348 and 360-365: r is the locate from the base frame; an alive
\* particle it did not find is marked as lost
AfterRestart(r, finds, fails, valid, warn, oob) ==
  IF ~r.found /\ r.p.alive
    THEN Crossed(mark_as_lost(r.p), FALSE, finds, fails + 1, valid,
                 warn + r.warn, oob \/ r.oob, 1)
    ELSE Crossed(r.p, r.found, finds, fails + (IF r.found THEN 0 ELSE 1), valid,
                 warn + r.warn, oob \/ r.oob, 0)

\* lines 341-342 and 358-359: the locate from the base frame
RestartFromBase(p, nb) == find_cell([p EXCEPT !.n_coord = 1], FALSE, nb)

\* AfterTile with the particle marked as lost when the locate in the tile
\* fails, without the restart from the base frame
AfterTileLost(r, nb) ==
  IF r.found
    THEN Crossed(r.p, TRUE, 1, 0, TRUE, r.warn, r.oob, 0)
    ELSE Crossed([r.p EXCEPT !.alive = FALSE], FALSE, 1, 1, TRUE, r.warn,
                 r.oob, 1)

\* lines 353-366: r is the locate in the tile reached
AfterTile(r, nb) ==
  IF r.found
    THEN Crossed(r.p, TRUE, 1, 0, TRUE, r.warn, r.oob, 0)
    ELSE AfterRestart(RestartFromBase(r.p, nb), 2, 1, TRUE, r.warn, r.oob)

\* lines 339-367, on the particle p1 with its tile indices translated
LocateAfterCrossing(p1, lat, nb) ==
  IF ~are_valid_indices(lat, p1.coord[p1.n_coord - 1].lattice_x)
    THEN AfterRestart(RestartFromBase(p1, nb), 1, 0, FALSE, 0, FALSE)
    ELSE AfterTile(
           find_cell([p1 EXCEPT !.coord[p1.n_coord - 1].universe =
                         LatAt(lat, p1.coord[p1.n_coord - 1].lattice_x)],
                     FALSE, nb), nb)

\* cross_lattice(p, lattice_translation)
cross_lattice(p, lattice_translation, nb) ==
  LocateAfterCrossing(TranslateTile(p, lattice_translation),
                      lattices[p.coord[p.n_coord - 1].lattice - 1], nb)

\* ------------------------------------------------------------------------
\* State
\* ------------------------------------------------------------------------
VARIABLES
  p,        \* the particle of the sequential specifications
  nbrs,     \* Cell::neighbors_ of every cell
  last,     \* what the last call of the locator did and returned
  status,   \* "running", or how the process ended
  dtb,      \* the outputs of the last distance_to_boundary call
  th,       \* the worker threads: position in the code, particle, locals
  overlap_check_count,  \* model::overlap_check_count
  inside,   \* per cell, how often a thread found its particle inside it
  micro_xs,         \* simulation::micro_xs, the cache of every nuclide
  micro_photon_xs,  \* simulation::micro_photon_xs, the cache of every element
  material_xs,      \* simulation::material_xs, the macroscopic accumulator
  xs,       \* the last call of calculate_xs: its inputs and its refreshes
  mat,      \* the material of the material specification
  api,      \* the last call on that material and what it returned
  reg       \* model::materials (the id_ of each) and model::material_map

vars == <<p, nbrs, last, status, dtb, th, overlap_check_count, inside,
          micro_xs, micro_photon_xs, material_xs, xs, mat, api, reg>>
geovars == <<p, nbrs, last, status, dtb, th, overlap_check_count, inside>>
xsvars == <<micro_xs, micro_photon_xs, material_xs, xs>>
matvars == <<xsvars, mat, api, reg>>
seqvars == <<p, last, dtb>>
thvars == <<th, overlap_check_count, inside>>

NoCall ==
  [op |-> "none", found |-> FALSE, finds |-> 0, fails |-> 0, valid |-> FALSE,
   warn |-> 0, lost |-> 0, oob |-> FALSE, nb |-> FALSE, nbfound |-> FALSE,
   lvl |-> 0, prev |-> C_NONE]

NoDtb ==
  [done |-> FALSE, dist |-> 0, surface_crossed |-> 0,
   lattice_translation |-> 0, next_level |-> 0, lost |-> FALSE,
   sr |-> <<>>, lr |-> <<>>]

Threads == 1..NThreads

IdleThread ==
  [pc |-> "idle", p |-> NewParticle(0, 1), work |-> <<>>, tmp |-> 0,
   ops |-> 0]

Init ==
  /\ p = NewParticle(0, 1)
  /\ nbrs = [c \in CellIdx |-> <<>>]
  /\ last = NoCall
  /\ status = "running"
  /\ dtb = NoDtb
  /\ th = [t \in Threads |-> IdleThread]
  /\ overlap_check_count = [c \in CellIdx |-> 0]
  /\ inside = [c \in CellIdx |-> 0]
  /\ micro_xs = <<>>
  /\ micro_photon_xs = <<>>
  /\ material_xs = <<>>
  /\ xs = <<>>
  /\ mat = <<>>
  /\ api = <<>>
  /\ reg = <<>>

\* ------------------------------------------------------------------------
\* The driver: source, move to a boundary of a coordinate level
\* ------------------------------------------------------------------------
\* the history of the particle ends after a call of the locator: the next
\* particle is constructed
EndHistory ==
  /\ status = "running"
  /\ last.op # "none"
  /\ p' = NewParticle(0, 1)
  /\ last' = NoCall
  /\ dtb' = NoDtb
  /\ UNCHANGED <<nbrs, status, thvars, matvars>>

\* the particle just constructed is placed at x with direction u
Source(x, u) ==
  /\ status = "running"
  /\ last.op = "none"
  /\ p = NewParticle(0, 1)
  /\ p' = NewParticle(x, u)
  /\ UNCHANGED <<nbrs, last, dtb, status, thvars, matvars>>

\* the particle moves by d along its direction in every frame and is handed
\* over at coordinate level l (n_coord = next_level)
Moved(q, d, l) ==
  [q EXCEPT !.coord = [i \in FrameIdx |->
                         IF i < q.n_coord
                           THEN [q.coord[i] EXCEPT !.xyz = @ + d * q.coord[i].uvw]
                           ELSE q.coord[i]],
            !.n_coord = l]

Located == last.found /\ last.op \in {"find_cell", "cross_lattice"}

\* a located particle reaches the surface of its cell of level l
MoveToSurface(l) ==
  /\ status = "running"
  /\ Located
  /\ l <= p.n_coord /\ l <= MAX_COORD
  /\ LET f == p.coord[l - 1]
         d == IF f.uvw > 0 THEN cells[f.cell].hi - f.xyz
                           ELSE f.xyz - cells[f.cell].lo
     IN /\ d >= 0
        /\ p.coord[0].xyz + d * p.coord[0].uvw \in 0..MaxX
        /\ p' = Moved(p, d, l)
  /\ last' = NoCall
  /\ dtb' = NoDtb
  /\ UNCHANGED <<nbrs, status, thvars, matvars>>

\* a located particle reaches the face of its lattice tile of level l
MoveToLatticeFace(l) ==
  /\ status = "running"
  /\ Located
  /\ l >= 2 /\ l <= p.n_coord /\ l <= MAX_COORD
  /\ p.coord[l - 1].lattice # F90_NONE
  /\ LET f == p.coord[l - 1]
         half == lattices[f.lattice - 1].pitch \div 2
         d == IF f.uvw > 0 THEN half - f.xyz ELSE f.xyz + half
     IN /\ d >= 0
        /\ p.coord[0].xyz + d * p.coord[0].uvw \in 0..MaxX
        /\ p' = Moved(p, d, l)
  /\ last' = NoCall
  /\ dtb' = NoDtb
  /\ UNCHANGED <<nbrs, status, thvars, matvars>>

\* ------------------------------------------------------------------------
\* The operations
\* ------------------------------------------------------------------------
\* a write behind coord[MAX_COORD-1] is undefined: the memory behind the array
\* takes it and the call goes on, or the process faults inside the call op
Faults(op, oob) ==
  /\ oob
  /\ status' = "fault"
  /\ last' = [NoCall EXCEPT !.op = op, !.oob = TRUE]

\* the call of find_cell that returned r
FindCellReturns(r, use_neighbor_lists) ==
  /\ p' = r.p
  /\ nbrs' = r.nb
  /\ last' = [NoCall EXCEPT !.op = "find_cell", !.found = r.found, !.finds = 1,
                !.fails = IF r.found THEN 0 ELSE 1, !.warn = r.warn,
                !.oob = r.oob, !.nb = use_neighbor_lists,
                !.nbfound = r.nbfound, !.lvl = r.lvl, !.prev = r.prev]
  /\ UNCHANGED status

FindCellEnds(r, use_neighbor_lists) ==
  /\ TotalNeighbors(r.nb) <= MaxNeighbors
  /\ \/ FindCellReturns(r, use_neighbor_lists)
     \/ Faults("find_cell", r.oob) /\ UNCHANGED <<p, nbrs>>

\* find_cell with the neighbor lists is called on a particle that has a cell
\* at the level it is searched from
HasCell(p0) == p0.coord[p0.n_coord - 1].cell # C_NONE

FindCell(use_neighbor_lists) ==
  /\ status = "running"
  /\ use_neighbor_lists => HasCell(PrepareFrames(p))
  /\ FindCellEnds(find_cell(p, use_neighbor_lists, nbrs), use_neighbor_lists)
  /\ dtb' = NoDtb
  /\ UNCHANGED <<thvars, matvars>>

\* the call of cross_lattice that did r
CrossLatticeEnds(r) ==
  \/ /\ p' = r.p
     /\ last' = [NoCall EXCEPT !.op = "cross_lattice", !.found = r.found,
                   !.finds = r.finds, !.fails = r.fails, !.valid = r.valid,
                   !.warn = r.warn, !.lost = r.lost, !.oob = r.oob]
     /\ UNCHANGED status
  \/ Faults("cross_lattice", r.oob) /\ UNCHANGED p

CrossLattice(lattice_translation) ==
  /\ status = "running"
  /\ p.n_coord >= 2
  /\ p.n_coord <= MAX_COORD
  /\ p.coord[p.n_coord - 1].lattice # F90_NONE
  /\ CrossLatticeEnds(cross_lattice(p, lattice_translation, nbrs))
  /\ dtb' = NoDtb
  /\ UNCHANGED <<nbrs, thvars, matvars>>

\* ------------------------------------------------------------------------
\* distance_to_boundary
\* ------------------------------------------------------------------------
\* the distances Cell::distance and Lattice::distance report; a lattice may
\* report a negative one (lines 417-422)
SurfDists == {0, MidDist - 2, MidDist - 1, MidDist, Infinity}
LatDists == SurfDists \cup {-1}

\* what Cell::distance reports at level i: a distance and a signed surface
SurfReports(i) == [d : SurfDists, s : {-(i + 1), i + 1}]
\* what Lattice::distance reports: a distance and a translation of the indices
LatReports == [d : LatDists, t : {-1, 1}]
NoLattice == [d |-> Infinity, t |-> 0]

\* lines 429 and 455: *dist == INFINITY || (*dist - d) / *dist >= FP_REL_PRECISION
\* in IEEE arithmetic (a zero *dist divides to an infinity or to a NaN)
Replaces(dist, d) ==
  \/ dist = Infinity
  \/ /\ d = Infinity
     /\ dist < 0
  \/ /\ d # Infinity
     /\ \/ dist > 0 /\ dist - d >= (dist + FP_REL_PRECISION_INV - 1) \div FP_REL_PRECISION_INV
        \/ dist < 0 /\ d - dist >= ((-dist) + FP_REL_PRECISION_INV - 1) \div FP_REL_PRECISION_INV
        \/ dist = 0 /\ d < 0

\* lines 436-447: the surface crossed; for a cell that is not simple the sign
\* is that of u . normal(r_hit), the normal pointing to the positive side
SurfaceCrossed(c, u, level_surf_cross) ==
  IF cells[c].simple_ THEN level_surf_cross
  ELSE IF u > 0 THEN Abs(level_surf_cross) ELSE -Abs(level_surf_cross)

\* lines 376-383: the locals and outputs before the loop; level_lat_trans,
\* *surface_crossed and *next_level are not initialised and hold junk
DtbStart(junk) ==
  [dist |-> Infinity, d_lat |-> Infinity, level_lat_trans |-> junk,
   surface_crossed |-> junk, lattice_translation |-> 0, next_level |-> junk,
   lost |-> FALSE]

\* lines 397-423: the lattice distance of a frame that is in a lattice
LatticeDistance(st, f, lr) ==
  IF f.lattice # F90_NONE
    THEN [st EXCEPT !.d_lat = lr.d, !.level_lat_trans = lr.t,
                    !.lost = @ \/ lr.d < 0]
    ELSE st

\* Compete with the lattice distance taken without the comparison with the
\* incumbent
CompeteLatticeWins(st, i, f, sr) ==
  IF sr.d < st.d_lat
    THEN IF Replaces(st.dist, sr.d)
           THEN [st EXCEPT !.dist = sr.d,
                           !.surface_crossed = SurfaceCrossed(f.cell, f.uvw, sr.s),
                           !.lattice_translation = 0,
                           !.next_level = i + 1]
           ELSE st
    ELSE [st EXCEPT !.dist = st.d_lat,
                    !.surface_crossed = F90_NONE,
                    !.lattice_translation = st.level_lat_trans,
                    !.next_level = i + 1]

\* lines 428-463: the candidate of level i against the incumbent
Compete(st, i, f, sr) ==
  IF sr.d < st.d_lat
    THEN IF Replaces(st.dist, sr.d)
           THEN [st EXCEPT !.dist = sr.d,
                           !.surface_crossed = SurfaceCrossed(f.cell, f.uvw, sr.s),
                           !.lattice_translation = 0,
                           !.next_level = i + 1]
           ELSE st
    ELSE IF Replaces(st.dist, st.d_lat)
           THEN [st EXCEPT !.dist = st.d_lat,
                           !.surface_crossed = F90_NONE,
                           !.lattice_translation = st.level_lat_trans,
                           !.next_level = i + 1]
           ELSE st

\* lines 386-464: one iteration of the loop over the levels
DtbLevel(st, i, f, sr, lr) == Compete(LatticeDistance(st, f, lr), i, f, sr)

\* DtbLoop with the levels visited from the innermost to the outermost
RECURSIVE DtbLoopInnerFirst(_, _, _, _, _)
DtbLoopInnerFirst(st, i, q, sr, lr) ==
  IF i >= q.n_coord THEN st
  ELSE DtbLoopInnerFirst(DtbLevel(st, q.n_coord - 1 - i,
                                  q.coord[q.n_coord - 1 - i],
                                  sr[q.n_coord - i], lr[q.n_coord - i]),
                         i + 1, q, sr, lr)

\* distance_to_boundary(p, ...) with the reports sr[i], lr[i] of the cells and
\* lattices of the levels: the locals and outputs after the loop
RECURSIVE DtbLoop(_, _, _, _, _)
DtbLoop(st, i, q, sr, lr) ==
  IF i >= q.n_coord THEN st
  ELSE DtbLoop(DtbLevel(st, i, q.coord[i], sr[i + 1], lr[i + 1]), i + 1, q, sr, lr)

distance_to_boundary(q, sr, lr, junk) == DtbLoop(DtbStart(junk), 0, q, sr, lr)

\* the reports of the n levels of particle q
SurfReportSeqs(q) ==
  {sr \in [1..q.n_coord -> UNION {SurfReports(i) : i \in 0..(q.n_coord - 1)}] :
     \A k \in 1..q.n_coord : sr[k] \in SurfReports(k - 1)}
LatReportSeqs(q) ==
  {lr \in [1..q.n_coord -> LatReports \cup {NoLattice}] :
     \A k \in 1..q.n_coord :
        (lr[k] = NoLattice) <=> (q.coord[k - 1].lattice = F90_NONE)}

DtbReturns(st, sr, lr) ==
  /\ dtb' = [done |-> TRUE, dist |-> st.dist,
             surface_crossed |-> st.surface_crossed,
             lattice_translation |-> st.lattice_translation,
             next_level |-> st.next_level, lost |-> st.lost,
             sr |-> sr, lr |-> lr]
  /\ p' = IF st.lost THEN mark_as_lost(p) ELSE p

DistanceToBoundary ==
  /\ status = "running"
  /\ Located
  /\ ~dtb.done
  /\ p.n_coord <= MaxDtbLevels
  /\ \E sr \in SurfReportSeqs(p), lr \in LatReportSeqs(p), junk \in JunkValues :
        DtbReturns(distance_to_boundary(p, sr, lr, junk), sr, lr)
  /\ UNCHANGED <<nbrs, last, status, thvars, matvars>>

NextDtb ==
  \/ EndHistory
  \/ \E x \in 0..MaxX, u \in Dirs : Source(x, u)
  \/ FindCell(FALSE)
  \/ DistanceToBoundary

SpecDtb == Init /\ [][NextDtb]_vars

\* ------------------------------------------------------------------------
\* check_cell_overlap, run by several threads
\* ------------------------------------------------------------------------
\* lines 40-47: the pairs <<level, cell>> of the cells that contain the
\* particle, in the order the loops visit them
RECURSIVE ContainingFrom(_, _, _)
ContainingFrom(q, j, k) ==
  IF j >= q.n_coord THEN <<>>
  ELSE IF k > Len(universes[q.coord[j].universe].cells_)
    THEN ContainingFrom(q, j + 1, 1)
  ELSE IF contains(universes[q.coord[j].universe].cells_[k],
                   q.coord[j].xyz, q.coord[j].uvw)
    THEN <<(<<j, universes[q.coord[j].universe].cells_[k]>>)>>
           \o ContainingFrom(q, j, k + 1)
  ELSE ContainingFrom(q, j, k + 1)

\* the particle a thread works on: sourced at x with direction u and located
ThreadParticle(x, u) == find_cell(NewParticle(x, u), FALSE, nbrs)

\* thread t calls check_cell_overlap on a located particle
OvCall(t, r) ==
  /\ r.found /\ ~r.oob
  /\ th' = [th EXCEPT ![t].pc = "check", ![t].p = r.p,
                      ![t].work = ContainingFrom(r.p, 0, 1)]

OvStart(t, x, u) ==
  /\ status = "running"
  /\ th[t].pc = "idle"
  /\ th[t].ops < MaxOps
  /\ OvCall(t, ThreadParticle(x, u))
  /\ UNCHANGED <<seqvars, nbrs, status, overlap_check_count, inside, matvars>>

\* line 60: the loops are over
OvReturn(t) ==
  /\ status = "running"
  /\ th[t].pc = "check"
  /\ th[t].work = <<>>
  /\ th' = [th EXCEPT ![t].pc = "idle", ![t].ops = @ + 1]
  /\ UNCHANGED <<seqvars, nbrs, status, overlap_check_count, inside, matvars>>

\* lines 48-54: a containing cell that is not the particle's cell is fatal
OvFatal(t) ==
  /\ status = "running"
  /\ th[t].pc = "check"
  /\ th[t].work # <<>>
  /\ th[t].work[1][2] # th[t].p.coord[th[t].work[1][1]].cell
  /\ status' = "fatal"
  /\ UNCHANGED <<seqvars, nbrs, thvars, matvars>>

\* line 55, ++model::overlap_check_count[index_cell]: the load of the plain
\* int64_t
OvLoad(t) ==
  /\ status = "running"
  /\ th[t].pc = "check"
  /\ th[t].work # <<>>
  /\ th[t].work[1][2] = th[t].p.coord[th[t].work[1][1]].cell
  /\ th' = [th EXCEPT ![t].pc = "store",
                      ![t].tmp = overlap_check_count[th[t].work[1][2]]]
  /\ UNCHANGED <<seqvars, nbrs, status, overlap_check_count, inside, matvars>>

\* line 55: the store of the incremented value
OvStore(t) ==
  /\ status = "running"
  /\ th[t].pc = "store"
  /\ overlap_check_count' =
       [overlap_check_count EXCEPT ![th[t].work[1][2]] = th[t].tmp + 1]
  /\ inside' = [inside EXCEPT ![th[t].work[1][2]] = @ + 1]
  /\ th' = [th EXCEPT ![t].pc = "check", ![t].work = Tail(@)]
  /\ UNCHANGED <<seqvars, nbrs, status, matvars>>

NextOverlap ==
  \/ \E t \in Threads, x \in ThreadX, u \in Dirs : OvStart(t, x, u)
  \/ \E t \in Threads : OvFatal(t)
  \/ \E t \in Threads : OvLoad(t)
  \/ \E t \in Threads : OvStore(t)
  \/ \E t \in Threads : OvReturn(t)

SpecOverlap == Init /\ [][NextOverlap]_vars

Next ==
  \/ EndHistory
  \/ \E x \in 0..MaxX, u \in Dirs : Source(x, u)
  \/ \E l \in 1..MAX_COORD : MoveToSurface(l)
  \/ \E l \in 1..MAX_COORD : MoveToLatticeFace(l)
  \/ \E b \in BOOLEAN : FindCell(b)
  \/ \E t \in {-1, 1} : CrossLattice(t)

Spec == Init /\ [][Next]_vars

\* ------------------------------------------------------------------------
\* Properties of find_cell and cross_lattice (specification Spec)
\* ------------------------------------------------------------------------
\* the cell bound to frame i belongs to the universe of the frame
FrameConsistent(q, i) ==
  /\ q.coord[i].cell \in CellIdx
  /\ cells[q.coord[i].cell].universe_ = q.coord[i].universe

\* the cell of the deepest frame is filled with a material
EndsInMaterial(q) ==
  /\ q.coord[q.n_coord - 1].cell \in CellIdx
  /\ cells[q.coord[q.n_coord - 1].cell].type_ = FILL_MATERIAL

\* C1: whenever find_cell returns true, the cell of every frame below n_coord
\* belongs to the universe of that frame and the cell of the deepest frame has
\* fill type MATERIAL, with and without the neighbor lists and from every
\* starting level
LocatedFramesConsistent ==
  (last.op = "find_cell" /\ last.found) =>
     /\ \A i \in 0..(p.n_coord - 1) : FrameConsistent(p, i)
     /\ EndsInMaterial(p)

\* C1 case: find_cell, started below the root with the neighbor lists, has
\* returned true on a particle nested at least three frames deep
LocatedDeepWitness ==
  /\ last.op = "find_cell" /\ last.found /\ last.nb
  /\ last.lvl >= 1
  /\ p.n_coord >= 3

\* C2 as stated: after find_cell and cross_lattice calls n_coord is within
\* 1..MAX_COORD and no frame of index MAX_COORD or more was written
CoordWithinBounds ==
  /\ p.n_coord \in 1..MAX_COORD
  /\ ~last.oob

\* C6 as stated: a find_cell call that warned of a lattice cell without a
\* universe at the tile indices has returned false, the process running
WarnedFindFails ==
  (last.op = "find_cell" /\ last.warn >= 1) =>
     /\ status = "running"
     /\ ~last.found

\* C6: a find_cell call in which a descent reached a lattice cell with invalid
\* tile indices and no outer universe issues the warning, does not end the
\* process and leaves the particle as alive as it was; it returns false,
\* unless the warning came from the search of the neighbor list and the sweep
\* of the universe that follows located the particle
WarnedFindNotFatal ==
  [][(last'.op = "find_cell" /\ last'.warn >= 1) =>
        /\ status' = "running"
        /\ p'.alive = p.alive
        /\ last'.lost = 0
        /\ (~last'.nb => ~last'.found)
        /\ (last'.found => last'.nb /\ ~last'.nbfound)]_vars

\* C6 case: find_cell without the neighbor lists has warned and returned false
WarnedFindWitness ==
  /\ last.op = "find_cell" /\ last.warn >= 1
  /\ ~last.nb /\ ~last.found
  /\ p.coord[p.n_coord].lattice # F90_NONE
  /\ ~are_valid_indices(lattices[p.coord[p.n_coord].lattice - 1],
                        p.coord[p.n_coord].lattice_x)

\* C7 as stated: cross_lattice marks the particle as lost only after two
\* failed find_cell calls
LostAfterTwoFailures ==
  (last.op = "cross_lattice" /\ last.lost >= 1) => last.fails >= 2

\* C7: cross_lattice marks the particle as lost only after the locate
\* restarted from the base frame has failed: that is the second of two failed
\* find_cell calls when the translated tile indices are valid and the only
\* find_cell call when they are not; an alive particle that a call did not
\* mark as lost ends located in a MATERIAL cell
LostAfterFailedRestart ==
  (last.op = "cross_lattice" /\ status = "running") =>
     /\ last.lost >= 1 =>
          /\ ~last.found /\ ~p.alive /\ last.lost = 1
          /\ last.finds = (IF last.valid THEN 2 ELSE 1)
          /\ last.fails = last.finds
     /\ (p.alive /\ last.lost = 0) => (last.found /\ EndsInMaterial(p))

\* C7 case: the translated indices were invalid and the particle was marked
\* as lost after one failed find_cell
LostAfterOneFailureWitness ==
  /\ last.op = "cross_lattice" /\ ~last.valid
  /\ last.lost = 1 /\ last.fails = 1 /\ last.finds = 1
  /\ ~p.alive

\* the particle find_cell searches for, on the state before the call
Searched == PrepareFrames(p)
PrevCell == Searched.coord[Searched.n_coord - 1].cell

\* C8: find_cell with the neighbor lists searches the list of the cell of the
\* deepest frame first: a cell found there is an element of that list and no
\* list changes; the list is appended to exactly when that search fails and
\* the sweep succeeds, with the cell found at that frame; a failed call and a
\* call without the neighbor lists change no list
NeighborListUpdate ==
  [][(last'.op = "find_cell" /\ status' = "running") =>
        IF last'.nb
          THEN /\ last'.prev = PrevCell
               /\ last'.lvl = Searched.n_coord - 1
               /\ last'.nbfound =>
                    /\ last'.found
                    /\ nbrs' = nbrs
                    /\ p'.coord[last'.lvl].cell \in Range(nbrs[PrevCell])
                    /\ CellMatches(Searched, p'.coord[last'.lvl].cell)
               /\ (~last'.nbfound /\ last'.found) =>
                    nbrs' = [nbrs EXCEPT ![PrevCell] =
                               Append(@, p'.coord[last'.lvl].cell)]
               /\ ~last'.found => nbrs' = nbrs
          ELSE nbrs' = nbrs]_vars

\* C8 case: the search of a non-empty neighbor list failed, the sweep located
\* the particle two frames deep and the cell of the frame searched was appended
NeighborAppendedWitness ==
  /\ last.op = "find_cell" /\ last.nb /\ last.found /\ ~last.nbfound
  /\ Len(nbrs[last.prev]) >= 2
  /\ nbrs[last.prev][Len(nbrs[last.prev])] = p.coord[last.lvl].cell
  /\ p.n_coord > last.lvl + 1

\* ------------------------------------------------------------------------
\* Properties of distance_to_boundary (specification SpecDtb)
\* ------------------------------------------------------------------------
\* the candidate of level k (1 is the outermost): the smaller of the distance
\* to the surface of the cell and the distance to the lattice face
Candidate(k) ==
  IF dtb.sr[k].d < dtb.lr[k].d THEN dtb.sr[k].d ELSE dtb.lr[k].d

\* a particle in a lattice tile at level 1 whose cell of level 0 has its
\* nearest surface exactly as far as the nearest face of the tile, no surface
\* of the cell in the tile being nearer
CoincidentSurfaceAndFace ==
  /\ dtb.done
  /\ p.n_coord = 2
  /\ p.coord[1].lattice # F90_NONE
  /\ dtb.sr[1].d = dtb.lr[2].d
  /\ dtb.sr[1].d < Infinity
  /\ dtb.lr[2].d <= dtb.sr[2].d

\* C3 as stated: with the surface of the level-0 cell coincident with the
\* lattice face, distance_to_boundary returns the lattice translation
CoincidentReturnsLattice ==
  CoincidentSurfaceAndFace =>
     /\ dtb.surface_crossed = F90_NONE
     /\ dtb.lattice_translation # 0

\* C3: with the surface of the level-0 cell coincident with the lattice face
\* at a finite distance, distance_to_boundary returns the crossing of the
\* surface of the level-0 cell: surface_crossed is that surface, the lattice
\* translation is zero and next_level is 1
CoincidentReturnsSurface ==
  CoincidentSurfaceAndFace =>
     /\ dtb.surface_crossed =
          SurfaceCrossed(p.coord[0].cell, p.coord[0].uvw, dtb.sr[1].s)
     /\ dtb.surface_crossed # F90_NONE
     /\ dtb.lattice_translation = 0
     /\ dtb.next_level = 1
     /\ dtb.dist = dtb.sr[1].d

\* C3 case: the coincident boundaries are MidDist away and the call returned
CoincidentWitness ==
  /\ CoincidentSurfaceAndFace
  /\ dtb.sr[1].d = MidDist
  /\ dtb.lr[2].t # 0
  /\ dtb.dist = MidDist

\* d is smaller than dist by the relative FP_REL_PRECISION or more
Undercuts(dist, d) == d < dist /\ Replaces(dist, d)

\* C4: the distance returned is the candidate of level next_level; that
\* candidate replaced the candidate of a coarser level, against which it
\* passed the test of lines 429 and 455, unless next_level is the outermost
\* level; and no level deeper than next_level has a candidate smaller than
\* the distance returned by the relative FP_REL_PRECISION or more
CoarserLevelWins ==
  dtb.done =>
     /\ dtb.next_level \in 1..p.n_coord
     /\ dtb.dist = Candidate(dtb.next_level)
     /\ dtb.next_level > 1 =>
          \E j \in 1..(dtb.next_level - 1) :
             Replaces(Candidate(j), Candidate(dtb.next_level))
     /\ \A k \in (dtb.next_level + 1)..p.n_coord :
          ~Undercuts(dtb.dist, Candidate(k))

\* C4 case: on a particle of three levels the second level won, and the
\* third level has a candidate smaller than the distance returned, within the
\* tolerance
CoarserLevelWitness ==
  /\ dtb.done
  /\ p.n_coord = 3
  /\ dtb.next_level = 2
  /\ Candidate(3) < dtb.dist
  /\ Candidate(2) < Candidate(1)

\* C5 as stated: the distance returned by distance_to_boundary is not negative
DistNonNegative == dtb.done => dtb.dist >= 0

\* ------------------------------------------------------------------------
\* Properties of the worker threads (specification SpecOverlap)
\* ------------------------------------------------------------------------
\* C10 as stated: when no thread is inside an increment, the counter of every
\* cell is the number of times a thread found its particle inside the cell
CountersExact ==
  (\A t \in Threads : th[t].pc # "store") =>
     \A c \in CellIdx : overlap_check_count[c] = inside[c]

\* ------------------------------------------------------------------------
\* Materials: the arithmetic of double
\* ------------------------------------------------------------------------
\* A natural number of any size is the sequence of its limbs of base 2^14,
\* the lowest first, the highest not zero: the mantissas of double and their
\* products, sums and quotients
LIMB_BITS == 14
LIMB == 2^LIMB_BITS

RECURSIVE BTrim(_)
BTrim(x) ==
  IF x # <<>> /\ x[Len(x)] = 0 THEN BTrim(SubSeq(x, 1, Len(x) - 1)) ELSE x

RECURSIVE BFromInt(_)
BFromInt(n) == IF n = 0 THEN <<>> ELSE <<n % LIMB>> \o BFromInt(n \div LIMB)

RECURSIVE Bits(_)
Bits(n) == IF n = 0 THEN 0 ELSE 1 + Bits(n \div 2)

BitLen(x) ==
  IF x = <<>> THEN 0 ELSE LIMB_BITS * (Len(x) - 1) + Bits(x[Len(x)])

BLimb(x, i) == IF i >= 1 /\ i <= Len(x) THEN x[i] ELSE 0

\* -1, 0, 1 as x is below, equal to, above y
RECURSIVE BCmpFrom(_, _, _)
BCmpFrom(x, y, i) ==
  IF i = 0 THEN 0
  ELSE IF x[i] < y[i] THEN -1
  ELSE IF x[i] > y[i] THEN 1
  ELSE BCmpFrom(x, y, i - 1)
BCmp(x, y) ==
  IF Len(x) < Len(y) THEN -1
  ELSE IF Len(x) > Len(y) THEN 1
  ELSE BCmpFrom(x, y, Len(x))

\* the limbs of x + y from limb i on, total the sum of the limbs i and the
\* carry
RECURSIVE BAddFrom(_, _, _, _)
BAddFrom(x, y, i, total) ==
  IF i > Len(x) /\ i > Len(y)
    THEN IF total = 0 THEN <<>> ELSE <<total>>
    ELSE <<total % LIMB>>
           \o BAddFrom(x, y, i + 1,
                       BLimb(x, i + 1) + BLimb(y, i + 1) + total \div LIMB)
BAdd(x, y) == BAddFrom(x, y, 1, BLimb(x, 1) + BLimb(y, 1))

\* x - y for x >= y
RECURSIVE BSubFrom(_, _, _, _)
BSubFrom(x, y, i, borrow) ==
  IF i > Len(x) THEN <<>>
  ELSE <<(BLimb(x, i) - BLimb(y, i) - borrow + LIMB) % LIMB>>
         \o BSubFrom(x, y, i + 1,
                     IF BLimb(x, i) - BLimb(y, i) - borrow < 0 THEN 1 ELSE 0)
BSub(x, y) == BTrim(BSubFrom(x, y, 1, 0))

\* the sum of the products x[i] * y[k - i + 1] of column k, from limb i of x on
RECURSIVE BColumn(_, _, _, _)
BColumn(x, y, k, i) ==
  IF i > Len(x) \/ i > k THEN 0
  ELSE x[i] * y[k - i + 1] + BColumn(x, y, k, i + 1)
BColumnOf(x, y, k) ==
  IF k > Len(x) + Len(y) THEN 0
  ELSE BColumn(x, y, k, IF k > Len(y) THEN k - Len(y) + 1 ELSE 1)
\* the limbs of x * y from limb k on, total the sum of column k and the carry
RECURSIVE BMulFrom(_, _, _, _)
BMulFrom(x, y, k, total) ==
  IF k > Len(x) + Len(y) THEN <<>>
  ELSE <<total % LIMB>>
         \o BMulFrom(x, y, k + 1, BColumnOf(x, y, k + 1) + total \div LIMB)
BMul(x, y) == BTrim(BMulFrom(x, y, 1, BColumnOf(x, y, 1)))

\* the limbs of x * m from limb i on for m of one limb, total the product of
\* limb i and the carry
RECURSIVE BScaleFrom(_, _, _, _)
BScaleFrom(x, m, i, total) ==
  IF i > Len(x) THEN IF total = 0 THEN <<>> ELSE <<total>>
  ELSE <<total % LIMB>>
         \o BScaleFrom(x, m, i + 1, BLimb(x, i + 1) * m + total \div LIMB)
BScale(x, m) == IF x = <<>> THEN <<>> ELSE BTrim(BScaleFrom(x, m, 1, x[1] * m))
\* x * 2^k
BShl(x, k) ==
  IF x = <<>> \/ k = 0 THEN x
  ELSE [i \in 1..(k \div LIMB_BITS) |-> 0] \o BScale(x, 2^(k % LIMB_BITS))

\* the whole part of x / 2^k
BShrBits(x, r) ==
  BTrim([i \in 1..Len(x) |->
           x[i] \div 2^r + (BLimb(x, i + 1) % 2^r) * 2^(LIMB_BITS - r)])
BShr(x, k) ==
  IF k \div LIMB_BITS >= Len(x) THEN <<>>
  ELSE BShrBits(SubSeq(x, k \div LIMB_BITS + 1, Len(x)), k % LIMB_BITS)

\* bit k of x, the lowest being bit 0, and whether a bit below bit k is set
BBit(x, k) ==
  (BLimb(x, k \div LIMB_BITS + 1) \div 2^(k % LIMB_BITS)) % 2 = 1
BAnyBelow(x, k) ==
  \/ \E i \in 1..(k \div LIMB_BITS) : BLimb(x, i) # 0
  \/ BLimb(x, k \div LIMB_BITS + 1) % 2^(k % LIMB_BITS) # 0
BOdd(x) == x # <<>> /\ x[1] % 2 = 1

\* ------------------------------------------------------------------------
\* double: IEEE 754 binary64, round to nearest, ties to even.  A finite value
\* is (-1)^neg * man * 2^exp with man below 2^53, and man at least 2^52
\* unless exp is -1074
MANT_BITS == 53
MIN_EXP == -1074
MAX_EXP == 971

Dbl(cls, neg, exp, man) == [cls |-> cls, neg |-> neg, exp |-> exp, man |-> man]
NaN == Dbl("nan", FALSE, 0, <<>>)
Inf(neg) == Dbl("inf", neg, 0, <<>>)
SignedZero(neg) == Dbl("zero", neg, 0, <<>>)
Zero == SignedZero(FALSE)
NegZero == SignedZero(TRUE)

IsNaN(a) == a.cls = "nan"
Finite(a) == a.cls \in {"zero", "fin"}
IsZero(a) == a.cls = "zero"

\* the double of man * 2^exp, man of at most 53 bits after the rounding
TWO_TO_53 == BShl(<<1>>, MANT_BITS)
Pack(neg, man, exp) ==
  IF man = <<>> THEN SignedZero(neg)
  ELSE IF BCmp(man, TWO_TO_53) >= 0
    THEN IF exp + 1 > MAX_EXP THEN Inf(neg)
         ELSE Dbl("fin", neg, exp + 1, BShr(man, 1))
  ELSE IF exp > MAX_EXP THEN Inf(neg)
  ELSE Dbl("fin", neg, exp, man)

\* man / 2^sh rounded to the nearest whole number, ties to even; sticky tells
\* that the value is above man by less than one
Nearest(man, sh, sticky) ==
  IF BBit(man, sh - 1)
       /\ (sticky \/ BAnyBelow(man, sh - 1) \/ BOdd(BShr(man, sh)))
    THEN BAdd(BShr(man, sh), <<1>>)
    ELSE BShr(man, sh)

\* the double nearest to (-1)^neg * (man + sticky) * 2^exp
RoundAt(neg, man, exp, sticky, e) ==
  IF e <= exp THEN Pack(neg, BShl(man, exp - e), e)
  ELSE Pack(neg, Nearest(man, e - exp, sticky), e)
Round(neg, man, exp, sticky) ==
  RoundAt(neg, man, exp, sticky, Max({exp + BitLen(man) - MANT_BITS, MIN_EXP}))

Num(i) == Round(i < 0, BFromInt(Abs(i)), 0, FALSE)
One == Num(1)

Neg(a) == IF IsNaN(a) THEN a ELSE [a EXCEPT !.neg = ~@]

Mul(a, b) ==
  IF IsNaN(a) \/ IsNaN(b) THEN NaN
  ELSE IF a.cls = "inf" \/ b.cls = "inf"
    THEN IF IsZero(a) \/ IsZero(b) THEN NaN ELSE Inf(a.neg # b.neg)
  ELSE IF IsZero(a) \/ IsZero(b) THEN SignedZero(a.neg # b.neg)
  ELSE Round(a.neg # b.neg, BMul(a.man, b.man), a.exp + b.exp, FALSE)

\* the long division of n by d, limb by limb from the highest limb of n; d
\* has its highest limb filled, at least 2^13, and r is the remainder so far.
\* A digit is estimated from the two highest limbs of the remainder and the
\* highest limb of d, never too high, and raised while d still fits
RECURSIVE BRaise(_, _, _)
BRaise(digit, r, d) ==
  IF BCmp(r, d) >= 0 THEN BRaise(digit + 1, BSub(r, d), d) ELSE <<digit, r>>
BEstimate(r, d) ==
  (BLimb(r, Len(d) + 1) * LIMB + BLimb(r, Len(d))) \div (d[Len(d)] + 1)
BDigitFrom(r, d, digit) == BRaise(digit, BSub(r, BScale(d, digit)), d)
BDigit(r, d) ==
  IF BCmp(r, d) < 0 THEN <<0, r>> ELSE BDigitFrom(r, d, BEstimate(r, d))
\* the digits for the limbs i and above of n, and the remainder they leave;
\* the digit is 0 while nothing of n has been met
BDigitBelow(high, digit) == <<(<<digit[1]>>) \o high[1], digit[2]>>
BLongStep(n, d, i, high) ==
  IF high[2] = <<>> /\ n[i] = 0 THEN <<(<<0>>) \o high[1], (<<>>)>>
  ELSE BDigitBelow(high, BDigit(BTrim(<<n[i]>> \o high[2]), d))
RECURSIVE BLongDiv(_, _, _)
BLongDiv(n, d, i) ==
  IF i > Len(n) THEN <<(<<>>), (<<>>)>>
  ELSE BLongStep(n, d, i, BLongDiv(n, d, i + 1))
\* <<quotient, remainder>> of n / d: both are shifted to fill the highest
\* limb of d, the remainder is shifted back
BFill(d) == (LIMB_BITS - (BitLen(d) % LIMB_BITS)) % LIMB_BITS
BShifted(qr, s) == <<BTrim(qr[1]), BShr(qr[2], s)>>
BDivModBy(n, d, s) ==
  BShifted(BLongDiv(BShl(n, s), BShl(d, s), 1), s)
BDivMod(n, d) == BDivModBy(n, d, BFill(d))

\* a / b for a and b of the same length: QUOT_BITS places below the point,
\* four whole limbs
QUOT_BITS == 4 * LIMB_BITS
Quotient(neg, qr, exp) == Round(neg, qr[1], exp - QUOT_BITS, qr[2] # <<>>)
DivAligned(neg, a, b, exp) ==
  Quotient(neg, BDivMod(BShl(a, QUOT_BITS), b), exp)
\* ma or mb shifted by the difference of their lengths
DivBy(neg, ma, mb, exp, by) ==
  IF by >= 0 THEN DivAligned(neg, ma, BShl(mb, by), exp + by)
  ELSE DivAligned(neg, BShl(ma, -by), mb, exp + by)
DivFinite(neg, ma, ea, mb, eb) ==
  DivBy(neg, ma, mb, ea - eb, BitLen(ma) - BitLen(mb))

Div(a, b) ==
  IF IsNaN(a) \/ IsNaN(b) THEN NaN
  ELSE IF a.cls = "inf"
    THEN IF b.cls = "inf" THEN NaN ELSE Inf(a.neg # b.neg)
  ELSE IF b.cls = "inf" THEN SignedZero(a.neg # b.neg)
  ELSE IF IsZero(b)
    THEN IF IsZero(a) THEN NaN ELSE Inf(a.neg # b.neg)
  ELSE IF IsZero(a) THEN SignedZero(a.neg # b.neg)
  ELSE DivFinite(a.neg # b.neg, a.man, a.exp, b.man, b.exp)

Frac(n, d) == Div(Num(n), Num(d))

\* a + b for finite a, b other than zero, a.exp >= b.exp: b more than
\* MANT_BITS + 1 places below a is less than a quarter of the last place of
\* a, and only tells the direction of the rounding
AddMagnitudes(neg, x, y, exp, sticky) ==
  Round(neg, BAdd(x, y), exp, sticky)
SubMagnitudes(neg, x, y, exp, sticky) ==
  IF BCmp(x, y) = 0 THEN Zero
  ELSE IF BCmp(x, y) > 0
    THEN IF sticky THEN Round(neg, BSub(BSub(x, y), <<1>>), exp, TRUE)
         ELSE Round(neg, BSub(x, y), exp, FALSE)
  ELSE Round(~neg, BSub(y, x), exp, FALSE)
AddOrdered(a, b) ==
  IF a.exp - b.exp > MANT_BITS + 1
    THEN IF a.neg = b.neg
           THEN AddMagnitudes(a.neg, BShl(a.man, 2), <<>>, a.exp - 2, TRUE)
           ELSE SubMagnitudes(a.neg, BShl(a.man, 2), <<>>, a.exp - 2, TRUE)
  ELSE IF a.neg = b.neg
    THEN AddMagnitudes(a.neg, BShl(a.man, a.exp - b.exp), b.man, b.exp, FALSE)
    ELSE SubMagnitudes(a.neg, BShl(a.man, a.exp - b.exp), b.man, b.exp, FALSE)

Add(a, b) ==
  IF IsNaN(a) \/ IsNaN(b) THEN NaN
  ELSE IF a.cls = "inf"
    THEN IF b.cls = "inf" /\ a.neg # b.neg THEN NaN ELSE a
  ELSE IF b.cls = "inf" THEN b
  ELSE IF IsZero(a) /\ IsZero(b) THEN SignedZero(a.neg /\ b.neg)
  ELSE IF IsZero(a) THEN b
  ELSE IF IsZero(b) THEN a
  ELSE IF a.exp >= b.exp THEN AddOrdered(a, b)
  ELSE AddOrdered(b, a)
Sub(a, b) == Add(a, Neg(b))

\* a < b and a == b of double
LtFinite(a, b) ==
  IF IsZero(a) THEN ~IsZero(b) /\ ~b.neg
  ELSE IF IsZero(b) THEN a.neg
  ELSE IF a.neg # b.neg THEN a.neg
  ELSE IF a.exp # b.exp THEN (a.exp < b.exp) # a.neg
  ELSE IF a.neg THEN BCmp(a.man, b.man) > 0
  ELSE BCmp(a.man, b.man) < 0
Lt(a, b) ==
  /\ ~IsNaN(a)
  /\ ~IsNaN(b)
  /\ IF a.cls = "inf" THEN a.neg /\ (b.cls # "inf" \/ ~b.neg)
     ELSE IF b.cls = "inf" THEN ~b.neg
     ELSE LtFinite(a, b)
Gt(a, b) == Lt(b, a)
Eq(a, b) == ~IsNaN(a) /\ ~IsNaN(b) /\ (a = b \/ (IsZero(a) /\ IsZero(b)))
Ne(a, b) == ~Eq(a, b)
Ge(a, b) == Gt(a, b) \/ Eq(a, b)
Le(a, b) == Lt(a, b) \/ Eq(a, b)

\* xt::sum over a tensor
RECURSIVE SumFrom(_, _, _)
SumFrom(s, i, acc) ==
  IF i > Len(s) THEN acc ELSE SumFrom(s, i + 1, Add(acc, s[i]))
SumSeq(s) == SumFrom(s, 1, Zero)

\* tensor *= scalar and tensor /= scalar
ScaleSeq(s, f) == [i \in DOMAIN s |-> Mul(s[i], f)]
DivSeq(s, f) == [i \in DOMAIN s |-> Div(s[i], f)]

\* ------------------------------------------------------------------------
\* Materials: the data library
\* ------------------------------------------------------------------------
\* data::nuclides, in the order of data::nuclide_map (global index g is
\* entry g + 1); data::elements likewise through data::element_map
nuclides ==
  << [name_ |-> "H1",  awr_ |-> Num(1),  element |-> 0, fissionable_ |-> FALSE],
     [name_ |-> "O16", awr_ |-> Num(16), element |-> 1, fissionable_ |-> FALSE],
     [name_ |-> "C12", awr_ |-> Num(12), element |-> 2, fissionable_ |-> FALSE],
     [name_ |-> "C13", awr_ |-> Num(13), element |-> 2, fissionable_ |-> TRUE] >>
NuclideIdx == 0..(Len(nuclides) - 1)
NuclideNames == {nuclides[g + 1].name_ : g \in NuclideIdx}
ElementIdx == {nuclides[g + 1].element : g \in NuclideIdx}
nuclide_map(name) == CHOOSE g \in NuclideIdx : nuclides[g + 1].name_ = name
Awr(g) == nuclides[g + 1].awr_

\* data::thermal_scatt, in the order of data::thermal_scatt_map; threshold
\* is the energy above which the table is not used
thermal_scatt ==
  << [name_ |-> "c_H_in_H2O",  nuclides_ |-> {"H1"},         threshold |-> 4],
     [name_ |-> "c_Graphite",  nuclides_ |-> {"C12", "C13"}, threshold |-> 2],
     [name_ |-> "c_H_in_CH2",  nuclides_ |-> {"H1"},         threshold |-> 4] >>
TableIdx == 0..(Len(thermal_scatt) - 1)
TableNames == {thermal_scatt[t + 1].name_ : t \in TableIdx}
thermal_scatt_map(name) ==
  CHOOSE t \in TableIdx : thermal_scatt[t + 1].name_ = name

\* the mass of a neutron in amu and Avogadro's number in 10^24/mol
MASS_NEUTRON == Frac(1, 1)
N_AVOGADRO == Frac(3, 5)

\* ------------------------------------------------------------------------
\* Materials: construction and finalize
\* ------------------------------------------------------------------------
\* the values an uninitialised double is explored with, and the pairs of
\* values two uninitialised doubles are explored with
\* material.h line 76: volume_ {-1.0}
NO_VOLUME == Num(-1)
JunkDoubles == {Zero, Num(7)}
JunkPairs == JunkDoubles \X JunkDoubles

\* Material(): density_ and density_gpcc_ have no initializer, each holds
\* whatever junk the allocation left: junk is the pair of the two values
DefaultMaterial(junk) ==
  [nuclide_ |-> <<>>, element_ |-> <<>>, atom_density_ |-> <<>>,
   density_ |-> junk[1], density_gpcc_ |-> junk[2], volume_ |-> NO_VOLUME,
   fissionable_ |-> FALSE,
   thermal_tables_ |-> <<>>, mat_nuclide_index_ |-> <<>>, fatal |-> FALSE]

Fatal(m) == [m EXCEPT !.fatal = TRUE]

\* line 89: the literal 1.0e-24, the double nearest to 1 / 10^24
TEN_TO_24 ==
  BMul(BMul(BFromInt(100000000), BFromInt(100000000)), BFromInt(100000000))
PER_CM3 == DivFinite(FALSE, <<1>>, 0, TEN_TO_24, 0)
\* line 86: the literal -1.0e-3
MINUS_MILLI == Frac(-1, 1000)

\* the <density> element: the sign of density_ tells mass from atom density
ReadDensity(m, units, val) ==
  IF units = "sum" THEN m
  ELSE IF units = "macro" THEN [m EXCEPT !.density_ = val]
  ELSE IF Le(val, Zero) THEN Fatal(m)
  ELSE IF units \in {"g/cc", "g/cm3"} THEN [m EXCEPT !.density_ = Neg(val)]
  ELSE IF units = "kg/m3"
    THEN [m EXCEPT !.density_ = Mul(MINUS_MILLI, val)]
  ELSE IF units = "atom/b-cm" THEN [m EXCEPT !.density_ = val]
  ELSE IF units \in {"atom/cc", "atom/cm3"}
    THEN [m EXCEPT !.density_ = Mul(PER_CM3, val)]
  ELSE Fatal(m)

\* lines 166-167: with units macro every nuclide has the density 1.0
NodeDensities(node) ==
  IF node.units = "macro" THEN [i \in DOMAIN node.densities |-> One]
  ELSE node.densities

\* the <nuclide> elements: names to global indices, ao or -wo copied
CopyNuclides(m, names, densities) ==
  IF names = <<>> THEN Fatal(m)
  ELSE [m EXCEPT !.nuclide_ = [i \in DOMAIN names |-> nuclide_map(names[i])],
                 !.element_ = [i \in DOMAIN names |->
                                 nuclides[nuclide_map(names[i]) + 1].element],
                 !.atom_density_ = densities]

AllGe0(s) == \A i \in DOMAIN s : Ge(s[i], Zero)
AllLe0(s) == \A i \in DOMAIN s : Le(s[i], Zero)

CheckPercents(m, units) ==
  IF ~(AllGe0(m.atom_density_) \/ AllLe0(m.atom_density_)) THEN Fatal(m)
  ELSE IF units = "sum" THEN [m EXCEPT !.density_ = SumSeq(m.atom_density_)]
  ELSE m

\* the optional <volume> element
ReadVolume(m, node) ==
  IF "volume" \in DOMAIN node THEN [m EXCEPT !.volume_ = node.volume] ELSE m

\* the <sab> elements: the slot of the nuclide is not known yet
ReadSab(m, sab) ==
  [m EXCEPT !.thermal_tables_ =
     [i \in DOMAIN sab |->
        [index_table |-> thermal_scatt_map(sab[i].name), index_nuclide |-> 0,
         fraction |-> sab[i].fraction]]]

\* Material::Material(node); a fatal error ends the construction
Material(node, junk) ==
  IF ReadDensity(DefaultMaterial(junk), node.units, node.value).fatal
    THEN Fatal(DefaultMaterial(junk))
  ELSE IF node.names = <<>> THEN Fatal(DefaultMaterial(junk))
  ELSE IF CheckPercents(CopyNuclides(DefaultMaterial(junk), node.names,
                                     NodeDensities(node)), node.units).fatal
    THEN Fatal(DefaultMaterial(junk))
  ELSE ReadSab(ReadVolume(CheckPercents(CopyNuclides(
                 ReadDensity(DefaultMaterial(junk), node.units, node.value),
                 node.names, NodeDensities(node)), node.units), node), node.sab)

\* the entries one table of the constructor gives: one per matching slot j
RECURSIVE TableMatches(_, _, _)
TableMatches(nuclide_, table, j) ==
  IF j >= Len(nuclide_) THEN <<>>
  ELSE (IF nuclides[nuclide_[j + 1] + 1].name_
             \in thermal_scatt[table.index_table + 1].nuclides_
          THEN << [index_table |-> table.index_table, index_nuclide |-> j,
                   fraction |-> table.fraction] >>
          ELSE <<>>) \o TableMatches(nuclide_, table, j + 1)

\* the first loop of init_thermal: every table in turn
RECURSIVE AssignTables(_, _)
AssignTables(nuclide_, tabs) ==
  IF tabs = <<>> THEN <<>>
  ELSE TableMatches(nuclide_, Head(tabs), 0)
         \o AssignTables(nuclide_, Tail(tabs))

\* "did not match any nuclide"
SomeTableUnmatched(nuclide_, tabs) ==
  \E i \in DOMAIN tabs : TableMatches(nuclide_, tabs[i], 0) = <<>>

\* init_thermal without the check of lines 428-439
MutNoClashCheck(tables) == FALSE

\* "was found in multiple thermal scattering tables"
SlotInTwoEntries(tables) ==
  \E j \in DOMAIN tables : \E k \in DOMAIN tables :
     j < k /\ tables[j].index_nuclide = tables[k].index_nuclide

\* init_thermal without the sort of lines 444-446
MutTablesUnsorted(tables) == tables

SortTables(tables) ==
  SortSeq(tables, LAMBDA a, b : a.index_nuclide < b.index_nuclide)

InitThermalEnds(m, tables) ==
  IF SlotInTwoEntries(tables) THEN Fatal(m)
  ELSE [m EXCEPT !.thermal_tables_ = SortTables(tables)]

init_thermal(m) ==
  IF SomeTableUnmatched(m.nuclide_, m.thermal_tables_) THEN Fatal(m)
  ELSE InitThermalEnds(m, AssignTables(m.nuclide_, m.thermal_tables_))

\* weight percents: every value divided by awr
PercentByAwr(m) ==
  [i \in DOMAIN m.atom_density_ |->
     Div(Neg(m.atom_density_[i]), Awr(m.nuclide_[i]))]

RECURSIVE SumPercentAwr(_, _, _, _)
SumPercentAwr(nuclide_, a, i, acc) ==
  IF i > Len(a) THEN acc
  ELSE SumPercentAwr(nuclide_, a, i + 1,
                     Add(acc, Mul(a[i], Awr(nuclide_[i]))))

\* density_gpcc_ += atom_density_(i) * awr * MASS_NEUTRON / N_AVOGADRO
RECURSIVE Gpcc(_, _, _, _)
Gpcc(nuclide_, a, i, acc) ==
  IF i > Len(a) THEN acc
  ELSE Gpcc(nuclide_, a, i + 1,
            Add(acc, Div(Mul(Mul(a[i], Awr(nuclide_[i])), MASS_NEUTRON),
                         N_AVOGADRO)))

\* -density_ * N_AVOGADRO / MASS_NEUTRON * sum_percent
MassToAtom(density_, sum_percent) ==
  Mul(Div(Mul(Neg(density_), N_AVOGADRO), MASS_NEUTRON), sum_percent)

Densities(m, a, density_) ==
  [m EXCEPT !.density_ = density_,
            !.atom_density_ = ScaleSeq(a, density_),
            !.density_gpcc_ = Gpcc(m.nuclide_, ScaleSeq(a, density_), 1, Zero)]

Normalized(m, a) ==
  IF ~Gt(m.density_, Zero)
    THEN Densities(m, a, MassToAtom(m.density_,
                            Div(One, SumPercentAwr(m.nuclide_, a, 1, Zero))))
    ELSE Densities(m, a, m.density_)

Fractions(a) == DivSeq(a, SumSeq(a))

normalize_density(m) ==
  IF ~Gt(m.atom_density_[1], Zero)
    THEN Normalized(m, Fractions(PercentByAwr(m)))
    ELSE Normalized(m, Fractions(m.atom_density_))

\* lines 336-341: the flag is set, never cleared
Fissionable(m) ==
  [m EXCEPT !.fissionable_ =
     @ \/ \E i \in DOMAIN m.nuclide_ : nuclides[m.nuclide_[i] + 1].fissionable_]

AfterThermal(m) == IF m.fatal THEN m ELSE normalize_density(m)

finalize(m) == AfterThermal(init_thermal(Fissionable(m)))

\* the later slot of a nuclide listed twice overwrites the earlier one
RECURSIVE FillIndex(_, _, _)
FillIndex(index, nuclide_, i) ==
  IF i >= Len(nuclide_) THEN index
  ELSE FillIndex([index EXCEPT ![nuclide_[i + 1] + 1] = i], nuclide_, i + 1)

init_nuclide_index(m) ==
  [m EXCEPT !.mat_nuclide_index_ =
     FillIndex([g \in 1..Len(nuclides) |-> C_NONE], m.nuclide_, 0)]

\* ------------------------------------------------------------------------
\* Cross sections: the caches and Material::calculate_xs
\* ------------------------------------------------------------------------
CACHE_INVALID == -1
MaxCalls == 2

Energies == {1, 10}
SqrtkTs == {1, 2}
ParticleTypes == {"neutron", "photon", "electron"}

\* the materials of the problem, as finalize leaves them
XsNodes ==
  << [names |-> <<"H1", "H1", "O16">>, densities |-> <<Num(2), Num(2), Num(1)>>,
      units |-> "g/cc", value |-> Num(1),
      sab |-> << [name |-> "c_H_in_H2O", fraction |-> Frac(9, 10)] >>],
     [names |-> <<"H1", "C12">>, densities |-> <<Num(1), Num(1)>>,
      units |-> "atom/b-cm", value |-> Num(1),
      sab |-> << [name |-> "c_Graphite", fraction |-> One] >>],
     [names |-> <<"C12", "C13", "H1">>,
      densities |-> <<Num(-3), Num(-1), Num(-1)>>,
      units |-> "sum", value |-> Zero,
      sab |-> << [name |-> "c_H_in_CH2", fraction |-> Frac(1, 2)],
                 [name |-> "c_Graphite", fraction |-> One] >>],
     [names |-> <<"H1">>, densities |-> <<Num(1)>>,
      units |-> "atom/b-cm", value |-> Num(1),
      sab |-> << [name |-> "c_H_in_H2O", fraction |-> NaN] >>] >>
materials == [i \in DOMAIN XsNodes |-> finalize(Material(XsNodes[i], <<Zero, Zero>>))]
MaterialIdx == DOMAIN materials

\* what the memory of an array of caches held before the array was made:
\* zeros, or a different value in every member of every entry; Junk is the
\* five values of entry k
JunkMemories == {"zeros", "ramp"}
Junk(memory, k) ==
  IF memory = "zeros" THEN [i \in 1..5 |-> Zero]
  ELSE [i \in 1..5 |-> Num(5 * k + i)]

\* NuclideMicroXS as constructed: index_sab, last_E and last_sqrtkT have
\* initializers, the other members hold junk, each its own
NewNuclideMicroXS(junk) ==
  [total |-> junk[1], absorption |-> junk[2], fission |-> junk[3],
   nu_fission |-> junk[4], index_sab |-> C_NONE, sab_frac |-> junk[5],
   last_E |-> 0, last_sqrtkT |-> 0]

NewElementMicroXS(junk) ==
  [total |-> junk[1], coherent |-> junk[2], incoherent |-> junk[3],
   photoelectric |-> junk[4], pair_production |-> junk[5], last_E |-> 0]

\* MaterialMacroXS of static storage: zero-initialized
NewMaterialMacroXS ==
  [total |-> Zero, absorption |-> Zero, fission |-> Zero, nu_fission |-> Zero,
   photon_prod |-> Zero, coherent |-> Zero, incoherent |-> Zero,
   photoelectric |-> Zero, pair_production |-> Zero]

\* the microscopic cross sections of nuclide g for the tuple: one value per
\* tuple, so that a value computed for another tuple is told apart
NuclideXs(g, i_sab, E, sqrtkT, sab_frac) ==
  Add(Num(g + 1 + 10 * E + 1000 * sqrtkT + 10000 * (i_sab + 1)), sab_frac)

\* a nuclide that stores the fraction 0 when no table is used
MutNuclideStoresNoFraction(micro, g, i_sab, E, sqrtkT, sab_frac) ==
  [micro EXCEPT !.total = NuclideXs(g, i_sab, E, sqrtkT, sab_frac),
                !.absorption = Num(g + 1),
                !.fission = Num(E),
                !.nu_fission = Num(sqrtkT),
                !.index_sab = i_sab,
                !.sab_frac = IF i_sab = C_NONE THEN Zero ELSE sab_frac,
                !.last_E = E,
                !.last_sqrtkT = sqrtkT]

\* Nuclide::calculate_xs refreshes the cache of the nuclide for the tuple
\* it is given and stores the tuple
Nuclide_calculate_xs(micro, g, i_sab, E, sqrtkT, sab_frac) ==
  [micro EXCEPT !.total = NuclideXs(g, i_sab, E, sqrtkT, sab_frac),
                !.absorption = Num(g + 1),
                !.fission = Num(E),
                !.nu_fission = Num(sqrtkT),
                !.index_sab = i_sab,
                !.sab_frac = sab_frac,
                !.last_E = E,
                !.last_sqrtkT = sqrtkT]

ElementXs(e, E) == Num(100 * (e + 1) + E)

\* Element::calculate_xs refreshes the photon cache of the element
Element_calculate_xs(micro, e, E) ==
  [micro EXCEPT !.total = ElementXs(e, E),
                !.coherent = Num(e + 1),
                !.incoherent = Num(E),
                !.photoelectric = Num(e + 1 + E),
                !.pair_production = Num(2 * E),
                !.last_E = E]

\* the binding without line 693: the cursor stays on the entry it matched
MutBindKeepsCursor(m, i, j, check_sab, E) ==
  IF check_sab /\ i = m.thermal_tables_[j + 1].index_nuclide
    THEN [i_sab |-> IF E > thermal_scatt[
                             m.thermal_tables_[j + 1].index_table + 1].threshold
                      THEN C_NONE
                      ELSE m.thermal_tables_[j + 1].index_table,
          sab_frac |-> m.thermal_tables_[j + 1].fraction,
          j |-> j,
          check_sab |-> check_sab]
    ELSE [i_sab |-> C_NONE, sab_frac |-> Zero, j |-> j,
          check_sab |-> check_sab]

\* lines 678-700: the table of slot i, read at the cursor j
Bind(m, i, j, check_sab, E) ==
  IF check_sab /\ i = m.thermal_tables_[j + 1].index_nuclide
    THEN [i_sab |-> IF E > thermal_scatt[
                             m.thermal_tables_[j + 1].index_table + 1].threshold
                      THEN C_NONE
                      ELSE m.thermal_tables_[j + 1].index_table,
          sab_frac |-> m.thermal_tables_[j + 1].fraction,
          j |-> j + 1,
          check_sab |-> (j + 1 # Len(m.thermal_tables_))]
    ELSE [i_sab |-> C_NONE, sab_frac |-> Zero, j |-> j,
          check_sab |-> check_sab]

\* the test of lines 710-711 alone
MutNeedsRefreshIgnoresTable(micro, E, sqrtkT, i_sab, sab_frac) ==
  \/ E # micro.last_E
  \/ sqrtkT # micro.last_sqrtkT

\* lines 710-713
NeedsRefresh(micro, E, sqrtkT, i_sab, sab_frac) ==
  \/ E # micro.last_E
  \/ sqrtkT # micro.last_sqrtkT
  \/ i_sab # micro.index_sab
  \/ Ne(sab_frac, micro.sab_frac)

\* lines 725-728
AccumulateNeutron(macro, atom_density, micro) ==
  [macro EXCEPT
     !.total = Add(macro.total, Mul(atom_density, micro.total)),
     !.absorption = Add(macro.absorption, Mul(atom_density, micro.absorption)),
     !.fission = Add(macro.fission, Mul(atom_density, micro.fission)),
     !.nu_fission = Add(macro.nu_fission, Mul(atom_density, micro.nu_fission))]

NeutronSlotEnds(st, m, i, b, cache, did) ==
  [st EXCEPT !.micro = cache,
             !.macro = AccumulateNeutron(st.macro, m.atom_density_[i + 1],
                                         cache[m.nuclide_[i + 1]]),
             !.j = b.j,
             !.check_sab = b.check_sab,
             !.refreshed = IF did THEN st.refreshed \cup {i} ELSE st.refreshed]

NeutronSlot(st, m, i, b, E, sqrtkT, g) ==
  IF NeedsRefresh(st.micro[g], E, sqrtkT, b.i_sab, b.sab_frac)
    THEN NeutronSlotEnds(st, m, i, b,
           [st.micro EXCEPT ![g] = Nuclide_calculate_xs(st.micro[g], g,
                                     b.i_sab, E, sqrtkT, b.sab_frac)], TRUE)
    ELSE NeutronSlotEnds(st, m, i, b, st.micro, FALSE)

RECURSIVE NeutronLoop(_, _, _, _, _)
NeutronLoop(st, m, i, E, sqrtkT) ==
  IF i >= Len(m.nuclide_) THEN st
  ELSE NeutronLoop(NeutronSlot(st, m, i, Bind(m, i, st.j, st.check_sab, E),
                               E, sqrtkT, m.nuclide_[i + 1]),
                   m, i + 1, E, sqrtkT)

\* i_grid is a function of E alone and only handed to the nuclide
calculate_neutron_xs(st, m, E, sqrtkT) ==
  NeutronLoop([st EXCEPT !.j = 0,
                         !.check_sab = (Len(m.thermal_tables_) > 0)],
              m, 0, E, sqrtkT)

\* lines 760-764
AccumulatePhoton(macro, atom_density, micro) ==
  [macro EXCEPT
     !.total = Add(macro.total, Mul(atom_density, micro.total)),
     !.coherent = Add(macro.coherent, Mul(atom_density, micro.coherent)),
     !.incoherent = Add(macro.incoherent, Mul(atom_density, micro.incoherent)),
     !.photoelectric =
        Add(macro.photoelectric, Mul(atom_density, micro.photoelectric)),
     !.pair_production =
        Add(macro.pair_production, Mul(atom_density, micro.pair_production))]

PhotonSlotEnds(st, m, i, cache, did) ==
  [st EXCEPT !.photon = cache,
             !.macro = AccumulatePhoton(st.macro, m.atom_density_[i + 1],
                                        cache[m.element_[i + 1]]),
             !.refreshed = IF did THEN st.refreshed \cup {i} ELSE st.refreshed]

PhotonSlot(st, m, i, E, e) ==
  IF E # st.photon[e].last_E
    THEN PhotonSlotEnds(st, m, i,
           [st.photon EXCEPT ![e] = Element_calculate_xs(st.photon[e], e, E)],
           TRUE)
    ELSE PhotonSlotEnds(st, m, i, st.photon, FALSE)

RECURSIVE PhotonLoop(_, _, _, _)
PhotonLoop(st, m, i, E) ==
  IF i >= Len(m.nuclide_) THEN st
  ELSE PhotonLoop(PhotonSlot(st, m, i, E, m.element_[i + 1]), m, i + 1, E)

calculate_photon_xs(st, m, E) ==
  PhotonLoop([st EXCEPT !.macro.coherent = Zero,
                        !.macro.incoherent = Zero,
                        !.macro.photoelectric = Zero,
                        !.macro.pair_production = Zero], m, 0, E)

\* lines 647-651
ZeroNeutronSums(st) ==
  [st EXCEPT !.macro.total = Zero, !.macro.absorption = Zero,
             !.macro.fission = Zero, !.macro.nu_fission = Zero,
             !.refreshed = {}]

\* Material::calculate_xs on the caches st.micro, st.photon and the
\* accumulator st.macro; refreshed collects the slots whose cache was
\* refreshed
calculate_xs(st, m, type, E, sqrtkT) ==
  IF type = "neutron"
    THEN calculate_neutron_xs(ZeroNeutronSums(st), m, E, sqrtkT)
  ELSE IF type = "photon"
    THEN calculate_photon_xs(ZeroNeutronSums(st), m, E)
  ELSE ZeroNeutronSums(st)

XsState ==
  [micro |-> micro_xs, photon |-> micro_photon_xs, macro |-> material_xs,
   j |-> 0, check_sab |-> FALSE, refreshed |-> {}]

NoXsCall ==
  [calls |-> 0, i_mat |-> 0, type |-> "none", E |-> 0, sqrtkT |-> 0,
   refreshed |-> {}, fresh |-> FALSE, prev |-> <<0, "none", 0, 0>>,
   prev_macro |-> NewMaterialMacroXS]

GeometryIdle ==
  /\ p = NewParticle(0, 1)
  /\ nbrs = [c \in CellIdx |-> <<>>]
  /\ last = NoCall
  /\ status = "running"
  /\ dtb = NoDtb
  /\ th = [t \in Threads |-> IdleThread]
  /\ overlap_check_count = [c \in CellIdx |-> 0]
  /\ inside = [c \in CellIdx |-> 0]

InitXs ==
  /\ GeometryIdle
  /\ \E memory \in JunkMemories :
       /\ micro_xs = [g \in NuclideIdx |-> NewNuclideMicroXS(Junk(memory, g))]
       /\ micro_photon_xs =
            [e \in ElementIdx |-> NewElementMicroXS(Junk(memory, e))]
  /\ material_xs = NewMaterialMacroXS
  /\ xs = NoXsCall
  /\ mat = <<>>
  /\ api = <<>>
  /\ reg = <<>>

CalculateXsEnds(r, i_mat, type, E, sqrtkT) ==
  /\ micro_xs' = r.micro
  /\ micro_photon_xs' = r.photon
  /\ material_xs' = r.macro
  /\ xs' = [calls |-> xs.calls + 1, i_mat |-> i_mat, type |-> type, E |-> E,
            sqrtkT |-> sqrtkT, refreshed |-> r.refreshed, fresh |-> TRUE,
            prev |-> IF xs.fresh THEN <<xs.i_mat, xs.type, xs.E, xs.sqrtkT>>
                     ELSE <<0, "none", 0, 0>>,
            prev_macro |-> material_xs]

\* a thread evaluates the cross sections of material i_mat for its particle
CalculateXs(i_mat, type, E, sqrtkT) ==
  /\ xs.calls < MaxCalls
  /\ CalculateXsEnds(calculate_xs(XsState, materials[i_mat], type, E, sqrtkT),
                     i_mat, type, E, sqrtkT)
  /\ UNCHANGED <<geovars, mat, api, reg>>

\* the caches are invalidated, as at the start of a history
Invalidate ==
  /\ xs.fresh
  /\ micro_xs' = [g \in NuclideIdx |->
                    [micro_xs[g] EXCEPT !.last_E = CACHE_INVALID]]
  /\ micro_photon_xs' = [e \in ElementIdx |->
                           [micro_photon_xs[e] EXCEPT !.last_E = CACHE_INVALID]]
  /\ xs' = [xs EXCEPT !.fresh = FALSE]
  /\ UNCHANGED <<geovars, material_xs, mat, api, reg>>

NextXs ==
  \/ \E i_mat \in MaterialIdx : \E type \in ParticleTypes :
       \E E \in Energies : \E sqrtkT \in SqrtkTs :
         CalculateXs(i_mat, type, E, sqrtkT)
  \/ Invalidate

SpecXs == InitXs /\ [][NextXs]_vars

\* ------------------------------------------------------------------------
\* Claims on the cross-section engine
\* ------------------------------------------------------------------------
XsKey == <<xs.i_mat, xs.type, xs.E, xs.sqrtkT>>
CalledTwice == xs.type # "none" /\ xs.prev = XsKey

\* C11 as stated: when calculate_xs is called twice in a row on the same
\* material with the same particle type, energy and temperature and the
\* caches were not invalidated in between, the second call leaves the
\* macroscopic cross sections as the first call left them and refreshes no
\* cache
CalculateXsIdempotent ==
  CalledTwice => material_xs = xs.prev_macro /\ xs.refreshed = {}

\* a thermal table of the material has a fraction that is not a number
NaNFraction(m) ==
  \E k \in DOMAIN m.thermal_tables_ : IsNaN(m.thermal_tables_[k].fraction)

\* C11: the second of two equal calls with no invalidation in between leaves
\* the macroscopic cross sections as the first left them and refreshes no
\* cache, on every material whose table fractions are numbers; a nuclide
\* bound to a table whose fraction is NaN is refreshed by every neutron call
IdempotentForNumberFractions ==
  CalledTwice =>
    IF NaNFraction(materials[xs.i_mat])
      THEN xs.type = "neutron" => xs.refreshed # {}
      ELSE material_xs = xs.prev_macro /\ xs.refreshed = {}

\* the second of two equal neutron calls on the water material above the
\* threshold of its table
IdempotentWitness ==
  CalledTwice /\ xs.type = "neutron" /\ xs.i_mat = 1 /\ xs.E = 10

NeutronFields == {"total", "absorption", "fission", "nu_fission"}
PhotonFields ==
  {"total", "coherent", "incoherent", "photoelectric", "pair_production"}
MacroFields == NeutronFields \cup PhotonFields \cup {"photon_prod"}
FieldsOf(type) ==
  IF type = "neutron" THEN NeutronFields
  ELSE IF type = "photon" THEN PhotonFields
  ELSE {}

\* C12: after a call of calculate_xs every field of the accumulator holds a
\* value of that call: a field the call did not accumulate is zero
AccumulatorFromLastCall ==
  xs.type # "none" =>
    \A f \in MacroFields \ FieldsOf(xs.type) : material_xs[f] = Zero

\* the table of slot i and its fraction, looked up in thermal_tables_
SlotTables(m, i) ==
  {k \in DOMAIN m.thermal_tables_ : m.thermal_tables_[k].index_nuclide = i}
TableTuple(t, E) ==
  <<IF E > thermal_scatt[t.index_table + 1].threshold THEN C_NONE
    ELSE t.index_table, t.fraction>>
SlotTuple(m, i, E) ==
  IF SlotTables(m, i) = {} THEN <<C_NONE, Zero>>
  ELSE TableTuple(m.thermal_tables_[CHOOSE k \in SlotTables(m, i) : TRUE], E)

Slots(m) == 0..(Len(m.nuclide_) - 1)
FirstSlotOf(m, i) == \A k \in Slots(m) : k < i => m.nuclide_[k + 1] # m.nuclide_[i + 1]
StoredTuple(micro) ==
  <<micro.last_E, micro.last_sqrtkT, micro.index_sab, micro.sab_frac>>

\* two tuples differ as the doubles and integers they hold
TupleDiffers(t, u) ==
  t[1] # u[1] \/ t[2] # u[2] \/ t[3] # u[3] \/ Ne(t[4], u[4])

RECURSIVE TotalForTuples(_, _, _, _, _)
TotalForTuples(m, i, E, sqrtkT, acc) ==
  IF i >= Len(m.nuclide_) THEN acc
  ELSE TotalForTuples(m, i + 1, E, sqrtkT,
         Add(acc, Mul(m.atom_density_[i + 1],
                      NuclideXs(m.nuclide_[i + 1], SlotTuple(m, i, E)[1], E,
                                sqrtkT, SlotTuple(m, i, E)[2]))))

NeutronCallStep == xs'.calls = xs.calls + 1 /\ xs'.type = "neutron"

RefreshedAsTupleDiffers(m, E, sqrtkT) ==
  \A i \in Slots(m) :
    IF FirstSlotOf(m, i)
      THEN (i \in xs'.refreshed) <=>
             TupleDiffers(<<E, sqrtkT, SlotTuple(m, i, E)[1],
                            SlotTuple(m, i, E)[2]>>,
                          StoredTuple(micro_xs[m.nuclide_[i + 1]]))
      ELSE i \notin xs'.refreshed

\* C13: a neutron call refreshes the cache of a nuclide exactly when one of
\* E, sqrt(kT), i_sab, sab_frac differs from the tuple the cache stores, and
\* the total it accumulates is the sum, over the slots, of the atom density
\* times the cross section of the nuclide for the tuple of this call
RefreshIffTupleDiffers ==
  [][NeutronCallStep =>
       /\ RefreshedAsTupleDiffers(materials[xs'.i_mat], xs'.E, xs'.sqrtkT)
       /\ material_xs'.total =
            TotalForTuples(materials[xs'.i_mat], 0, xs'.E, xs'.sqrtkT, Zero)]_vars

\* H1 is bound to a table in material 1 and unbound in material 2: the
\* second call, at the same energy and temperature, refreshed H1
SharedNuclideWitness ==
  /\ xs.type = "neutron" /\ xs.i_mat = 2 /\ xs.E = 1
  /\ xs.prev = <<1, "neutron", 1, xs.sqrtkT>>
  /\ 0 \in xs.refreshed

\* ------------------------------------------------------------------------
\* Loading a material: construction, finalize, nuclide index
\* ------------------------------------------------------------------------
MaxNuclides == 3

NameLists == UNION {[1..n -> NuclideNames] : n \in 1..MaxNuclides}

\* the ao values of a material, by slot; as wo the same values negated
PercentPatterns == {"ones", "water", "leading zero", "zeros"}
PercentAt(pattern, i) ==
  IF pattern = "ones" THEN Num(1)
  ELSE IF pattern = "water" THEN (IF i <= 2 THEN Num(2) ELSE Num(1))
  ELSE IF pattern = "leading zero" THEN Num(i - 1)
  ELSE Zero
PercentTable ==
  [pattern \in PercentPatterns |->
     [sign \in {1, -1} |->
        [i \in 1..MaxNuclides |-> Mul(Num(sign), PercentAt(pattern, i))]]]
Percents(names, pattern, sign) ==
  [i \in DOMAIN names |-> PercentTable[pattern][sign][i]]

DensityNodes ==
  { [units |-> "g/cc", value |-> Num(1)],
    [units |-> "atom/b-cm", value |-> Num(2)],
    [units |-> "sum", value |-> Zero],
    [units |-> "g/cm3", value |-> Zero],
    [units |-> "kg/m3", value |-> Num(1000)],
    [units |-> "macro", value |-> Num(2)],
    [units |-> "atom/cc", value |-> Num(1)],
    [units |-> "lb/ft3", value |-> Num(1)] }

SabNode(name) ==
  [name |-> name,
   fraction |-> IF name = "c_H_in_H2O" THEN Frac(9, 10) ELSE One]
SabLists ==
  {<<>>} \cup {<<SabNode(a)>> : a \in TableNames}
         \cup {<<SabNode(a), SabNode(b)>> : a \in TableNames, b \in TableNames}

NoApi ==
  [stage |-> "none", node |-> <<>>, op |-> "none", ret |-> 0, calls |-> 0,
   before |-> <<>>, arg |-> <<>>, damaged |-> FALSE,
   prev |-> [op |-> "none", arg |-> <<>>, ret |-> 0, before |-> <<>>]]

InitLoad ==
  /\ GeometryIdle
  /\ micro_xs = <<>>
  /\ micro_photon_xs = <<>>
  /\ material_xs = <<>>
  /\ xs = <<>>
  /\ mat = <<>>
  /\ api = NoApi
  /\ reg = <<>>

ReadMaterialEnds(m, node) ==
  /\ mat' = m
  /\ api' = [api EXCEPT !.stage = IF mat'.fatal THEN "rejected"
                                 ELSE "constructed",
                        !.node = node]

\* read_materials constructs the material of a <material> node
ReadMaterial(node, junk) ==
  /\ api.stage = "none"
  /\ ReadMaterialEnds(Material(node, junk), node)
  /\ UNCHANGED <<geovars, xsvars, reg>>

FinalizeEnds(m) ==
  /\ mat' = m
  /\ api' = [api EXCEPT !.stage = IF mat'.fatal THEN "fatal" ELSE "finalized"]

Finalize ==
  /\ api.stage = "constructed"
  /\ FinalizeEnds(finalize(mat))
  /\ UNCHANGED <<geovars, xsvars, reg>>

InitNuclideIndex ==
  /\ api.stage = "finalized"
  /\ mat' = init_nuclide_index(mat)
  /\ api' = [api EXCEPT !.stage = "loaded"]
  /\ UNCHANGED <<geovars, xsvars, reg>>

\* the <material> nodes read_materials may be given
ReadMaterials ==
  /\ api.stage = "none"
  /\ \E names \in NameLists : \E pattern \in PercentPatterns :
       \E sign \in {1, -1} : \E d \in DensityNodes : \E sab \in SabLists :
         \E junk \in JunkPairs :
           ReadMaterial([names |-> names,
                         densities |-> Percents(names, pattern, sign),
                         units |-> d.units, value |-> d.value, sab |-> sab],
                        junk)

NextLoad ==
  \/ ReadMaterials
  \/ Finalize
  \/ InitNuclideIndex

SpecLoad == InitLoad /\ [][NextLoad]_vars

\* ------------------------------------------------------------------------
\* Claims on finalize
\* ------------------------------------------------------------------------
Finalized == api.stage \in {"finalized", "loaded"}
FinalizeEnded == Finalized \/ api.stage = "fatal"

\* the slots of the node's nuclides that the k-th <sab> table accepts
NodeMatches(node, k) ==
  {i \in DOMAIN node.names :
     node.names[i] \in
       thermal_scatt[thermal_scatt_map(node.sab[k].name) + 1].nuclides_}
TableUnmatched(node) ==
  \E k \in DOMAIN node.sab : NodeMatches(node, k) = {}
SlotInTwoTables(node) ==
  \E k1 \in DOMAIN node.sab : \E k2 \in DOMAIN node.sab :
     k1 < k2 /\ NodeMatches(node, k1) \cap NodeMatches(node, k2) # {}

\* C14 as stated: finalize completes only if every thermal table of the
\* material matches exactly one of its nuclides
FinalizedTablesMatchOne ==
  Finalized =>
    \A k \in DOMAIN api.node.sab : Cardinality(NodeMatches(api.node, k)) = 1

\* C14: finalize is fatal exactly when a thermal table of the material
\* matches none of its nuclides or a nuclide slot of the material is matched
\* by more than one of the listed tables; one table matching several slots
\* is accepted
FinalizeFatalIffTableClash ==
  FinalizeEnded =>
    (api.stage = "fatal" <=>
       TableUnmatched(api.node) \/ SlotInTwoTables(api.node))

\* fatal although every table matched: a slot was claimed by two tables
TableClashWitness ==
  api.stage = "fatal" /\ ~TableUnmatched(api.node)

\* C15: after init_thermal completed without a fatal error, thermal_tables_
\* is strictly ascending in the local slot, hence no slot occurs twice
ThermalTablesAscending ==
  Finalized =>
    \A j \in DOMAIN mat.thermal_tables_ : \A k \in DOMAIN mat.thermal_tables_ :
       j < k => mat.thermal_tables_[j].index_nuclide
                  < mat.thermal_tables_[k].index_nuclide

\* the <sab> entries were listed against the order of the slots
TablesReorderedWitness ==
  /\ Finalized
  /\ Len(mat.thermal_tables_) >= 2
  /\ thermal_scatt_map(api.node.sab[1].name)
       # mat.thermal_tables_[1].index_table

\* Two doubles are equal up to rounding when they are equal or differ by at
\* most 1e-12 of the larger magnitude; a NaN is close to nothing
AbsOf(a) == IF IsNaN(a) THEN a ELSE [a EXCEPT !.neg = FALSE]
Larger(a, b) == IF Lt(a, b) THEN b ELSE a
REL_TOL == Div(One, Mul(Num(1000000), Num(1000000)))
Close(a, b) ==
  \/ Eq(a, b)
  \/ Le(AbsOf(Sub(a, b)), Mul(REL_TOL, Larger(AbsOf(a), AbsOf(b))))

\* the sum of N_i * AWR_i * M_n / N_A over the slots of m
GpccSum(m) ==
  SumSeq([i \in DOMAIN m.nuclide_ |->
            Div(Mul(Mul(m.atom_density_[i], Awr(m.nuclide_[i])),
                    MASS_NEUTRON), N_AVOGADRO)])

\* C17: after finalize density_gpcc_ is the sum of N_i * AWR_i * M_n / N_A,
\* the atom densities sum to density_, both up to rounding, and none of the
\* atom densities is negative
DensitiesNormalized ==
  Finalized =>
    /\ Close(mat.density_gpcc_, GpccSum(mat))
    /\ Close(SumSeq(mat.atom_density_), mat.density_)
    /\ AllGe0(mat.atom_density_)

\* ------------------------------------------------------------------------
\* The boundary API on a loaded material
\* ------------------------------------------------------------------------
OPENMC_E_ALLOCATE == -2
OPENMC_E_OUT_OF_BOUNDS == -3
OPENMC_E_INVALID_ARGUMENT == -5
OPENMC_E_DATA == -9

\* atom_density_ /= sum; atom_density_ *= density
Rescaled(a, density) == ScaleSeq(DivSeq(a, SumSeq(a)), density)

SetAtomDensity(m, density, a) ==
  [m EXCEPT !.density_ = density,
            !.atom_density_ = a,
            !.density_gpcc_ = Gpcc(m.nuclide_, a, 1, Zero)]

\* f = density / previous_density_gpcc
SetMassDensity(m, density, f) ==
  [m EXCEPT !.density_gpcc_ = density,
            !.density_ = Mul(m.density_, f),
            !.atom_density_ = ScaleSeq(m.atom_density_, f)]

\* Material::set_density: the material it leaves and the code it returns
set_density(m, density, units) ==
  IF m.nuclide_ = <<>> THEN [m |-> m, ret |-> OPENMC_E_ALLOCATE]
  ELSE IF units = "atom/b-cm"
    THEN [m |-> SetAtomDensity(m, density, Rescaled(m.atom_density_, density)),
          ret |-> 0]
  ELSE IF units \in {"g/cm3", "g/cc"}
    THEN [m |-> SetMassDensity(m, density, Div(density, m.density_gpcc_)),
          ret |-> 0]
  ELSE [m |-> m, ret |-> OPENMC_E_INVALID_ARGUMENT]

\* openmc_load_nuclide: 0 when the library holds the nuclide
openmc_load_nuclide(name) ==
  IF name \in NuclideNames THEN 0 ELSE OPENMC_E_DATA

\* the slot of the nuclide called name, 0 when the material has none
SlotOf(m, name) ==
  IF \E i \in DOMAIN m.nuclide_ : nuclides[m.nuclide_[i] + 1].name_ = name
    THEN CHOOSE i \in DOMAIN m.nuclide_ :
           /\ nuclides[m.nuclide_[i] + 1].name_ = name
           /\ \A k \in DOMAIN m.nuclide_ :
                nuclides[m.nuclide_[k] + 1].name_ = name => i <= k
    ELSE 0

\* lines 919-923
ReplaceDensity(m, i, density) ==
  [m EXCEPT
     !.density_ = Add(m.density_, Sub(density, m.atom_density_[i])),
     !.density_gpcc_ =
        Add(m.density_gpcc_,
            Div(Mul(Mul(Sub(density, m.atom_density_[i]), Awr(m.nuclide_[i])),
                    MASS_NEUTRON), N_AVOGADRO)),
     !.atom_density_[i] = density]

\* lines 933-946: the density is written to atom_density(n), one past the
\* last entry of the new array, whose last entry stays zero.  A new array of
\* one entry has the stride 0, and atom_density(1) is its only entry.
AppendNuclide(m, i_nuc, density) ==
  [m EXCEPT
     !.nuclide_ = Append(m.nuclide_, i_nuc),
     !.atom_density_ = IF m.nuclide_ = <<>> THEN <<density>>
                       ELSE Append(m.atom_density_, Zero),
     !.density_ = Add(m.density_, density),
     !.density_gpcc_ =
        Add(m.density_gpcc_,
            Div(Mul(Mul(density, Awr(i_nuc)), MASS_NEUTRON), N_AVOGADRO))]

\* openmc_material_add_nuclide on the material; oob tells that the call
\* wrote outside the array
add_nuclide(m, name, density) ==
  IF SlotOf(m, name) # 0
    THEN [m |-> ReplaceDensity(m, SlotOf(m, name), density), ret |-> 0,
          oob |-> FALSE]
  ELSE IF openmc_load_nuclide(name) # 0
    THEN [m |-> m, ret |-> openmc_load_nuclide(name), oob |-> FALSE]
  ELSE [m |-> AppendNuclide(m, nuclide_map(name), density), ret |-> 0,
        oob |-> m.nuclide_ # <<>>]

\* lines 1036-1039
Resized(m, n) ==
  IF n # Len(m.nuclide_)
    THEN [m EXCEPT !.nuclide_ = [i \in 1..n |-> IF i <= Len(m.nuclide_)
                                                  THEN m.nuclide_[i] ELSE 0],
                   !.atom_density_ = [i \in 1..n |-> Zero]]
    ELSE m

\* lines 1054-1060: the code set_density returns is dropped
SetDensitiesEnds(m, sum_density) ==
  [m |-> init_thermal(set_density(m, sum_density, "atom/b-cm").m), ret |-> 0]

\* lines 1041-1052
RECURSIVE SetDensitiesLoop(_, _, _, _, _, _)
SetDensitiesLoop(m, n, name, density, i, sum_density) ==
  IF i >= n THEN SetDensitiesEnds(m, sum_density)
  ELSE IF openmc_load_nuclide(name[i + 1]) < 0
    THEN [m |-> m, ret |-> openmc_load_nuclide(name[i + 1])]
  ELSE SetDensitiesLoop(
         [m EXCEPT !.nuclide_[i + 1] = nuclide_map(name[i + 1]),
                   !.atom_density_[i + 1] = density[i + 1]],
         n, name, density, i + 1, Add(sum_density, density[i + 1]))

\* openmc_material_set_densities on the material
set_densities(m, n, name, density) ==
  SetDensitiesLoop(Resized(m, n), n, name, density, 0, Zero)

\* the materials of the problem: model::materials has one entry
ApiNodes ==
  << [names |-> <<"H1", "O16">>, densities |-> <<Num(2), Num(1)>>,
      units |-> "atom/b-cm", value |-> Num(3), sab |-> <<>>],
     [names |-> <<"H1", "O16">>, densities |-> <<Num(2), Num(1)>>,
      units |-> "g/cc", value |-> Num(1),
      sab |-> << [name |-> "c_H_in_H2O", fraction |-> Frac(9, 10)] >>],
     XsNodes[2], XsNodes[3],
     [names |-> <<"C12", "C13">>, densities |-> <<Num(3), Num(1)>>,
      units |-> "atom/b-cm", value |-> Num(4),
      sab |-> << [name |-> "c_Graphite", fraction |-> One] >>] >>
LoadedMaterials ==
  {init_nuclide_index(finalize(Material(ApiNodes[i], <<Zero, Zero>>))) :
     i \in DOMAIN ApiNodes}
MaterialIndices == {1, 2}
InBounds(index) == index >= 1 /\ index <= 1

InitMaterial ==
  /\ GeometryIdle
  /\ micro_xs = <<>>
  /\ micro_photon_xs = <<>>
  /\ material_xs = <<>>
  /\ xs = <<>>
  /\ reg = <<>>
  /\ \/ mat \in LoadedMaterials /\ api = [NoApi EXCEPT !.stage = "loaded"]
     \/ \E junk \in JunkPairs :
          mat = DefaultMaterial(junk) /\ api = [NoApi EXCEPT !.stage = "extended"]

ApiCallable == api.stage \in {"loaded", "extended"} /\ api.calls < MaxCalls

\* what a call of the boundary API leaves
ApiReturns(op, arg, m, ret) ==
  /\ mat' = m
  /\ api' = [api EXCEPT !.op = op, !.arg = arg, !.ret = ret,
                        !.calls = api.calls + 1, !.before = mat,
                        !.prev = [op |-> api.op, arg |-> api.arg,
                                  ret |-> api.ret, before |-> api.before],
                        !.stage = IF m.fatal THEN "fatal" ELSE api.stage]

\* the process ends inside the call
ApiFaults(op, arg, m) ==
  /\ mat' = m
  /\ api' = [api EXCEPT !.op = op, !.arg = arg, !.calls = api.calls + 1,
                        !.before = mat, !.stage = "fault"]

\* a write past the end of an array damaged the heap in an earlier call: a
\* call that allocates or releases memory returns, or the process ends in it
HeapCallReturns(op, arg, m, ret) ==
  \/ ApiReturns(op, arg, m, ret)
  \/ api.damaged /\ ApiFaults(op, arg, mat)

\* the else branch of the index check builds the std::string of set_errmsg
OutOfBounds(op, arg) == HeapCallReturns(op, arg, mat, OPENMC_E_OUT_OF_BOUNDS)

\* lines 768 and 1023 copy units into a std::string, lines 771 and 803 build
\* the std::string of the error message
SetDensityReturns(arg, r) == HeapCallReturns("set_density", arg, r.m, r.ret)

\* the densities a caller passes: zero, two, and the total atom density the
\* material had before the last call
DensityArgs ==
  {Zero, Num(2)} \cup (IF api.op = "none" THEN {} ELSE {api.before.density_})
UnitsArgs == {"atom/b-cm", "g/cm3", "kg/m3"}

\* openmc_material_set_density
SetDensity(index, density, units) ==
  /\ ApiCallable
  /\ IF InBounds(index)
       THEN SetDensityReturns([index |-> index, density |-> density,
                               units |-> units],
                              set_density(mat, density, units))
       ELSE OutOfBounds("set_density", [index |-> index, density |-> density,
                                        units |-> units])
  /\ UNCHANGED <<geovars, xsvars, reg>>

\* lines 933-946 allocate and release arrays
AppendsNuclide(m, name) == SlotOf(m, name) = 0 /\ openmc_load_nuclide(name) = 0

\* the write past the end of the array is undefined: it is lost, or it
\* damages the heap, and the process ends in this call or in a later one
AddNuclideReturns(arg, r) ==
  \/ /\ mat' = r.m
     /\ api' = [api EXCEPT !.op = "add_nuclide", !.arg = arg, !.ret = r.ret,
                           !.calls = api.calls + 1, !.before = mat,
                           !.prev = [op |-> api.op, arg |-> api.arg,
                                     ret |-> api.ret, before |-> api.before],
                           !.damaged = @ \/ r.oob]
  \/ r.oob /\ ApiFaults("add_nuclide", arg, r.m)
  \/ api.damaged /\ AppendsNuclide(mat, arg.name)
       /\ ApiFaults("add_nuclide", arg, mat)

NameArgs == {"H1", "C12", "C13", "Xx9"}

\* openmc_material_add_nuclide
AddNuclide(index, name, density) ==
  /\ ApiCallable
  /\ IF InBounds(index)
       THEN AddNuclideReturns([index |-> index, name |-> name,
                               density |-> density],
                              add_nuclide(mat, name, density))
       ELSE OutOfBounds("add_nuclide", [index |-> index, name |-> name,
                                        density |-> density])
  /\ UNCHANGED <<geovars, xsvars, reg>>

\* lines 1036-1039 release the arrays, init_thermal of line 1057 allocates
SetDensitiesReturns(arg, r) ==
  IF arg.n # Len(mat.nuclide_) \/ r.ret = 0
    THEN HeapCallReturns("set_densities", arg, r.m, r.ret)
    ELSE ApiReturns("set_densities", arg, r.m, r.ret)

SizeArgs == {0, 1, 2}
NamesArgs(n) == [1..n -> NameArgs]
DensitiesArg(n) == [i \in 1..n |-> Num(i)]

\* openmc_material_set_densities
SetDensities(index, n, name, density) ==
  /\ ApiCallable
  /\ IF InBounds(index)
       THEN SetDensitiesReturns([index |-> index, n |-> n, name |-> name],
                                set_densities(mat, n, name, density))
       ELSE OutOfBounds("set_densities",
                        [index |-> index, n |-> n, name |-> name])
  /\ UNCHANGED <<geovars, xsvars, reg>>

NextMaterial ==
  \/ \E index \in MaterialIndices : \E density \in DensityArgs :
       \E units \in UnitsArgs : SetDensity(index, density, units)
  \/ \E index \in MaterialIndices : \E name \in NameArgs :
       AddNuclide(index, name, Num(1))
  \/ \E index \in MaterialIndices : \E n \in SizeArgs :
       \E name \in NamesArgs(n) : SetDensities(index, n, name, DensitiesArg(n))

SpecMaterial == InitMaterial /\ [][NextMaterial]_vars

\* ------------------------------------------------------------------------
\* Claims on the boundary API
\* ------------------------------------------------------------------------
IndexEntry(m, g) == m.mat_nuclide_index_[g + 1]

\* C16: for a finalized material with its nuclide index built, and after
\* every later add_nuclide and set_densities on it, the index maps the
\* nuclide of every slot k to k and every nuclide the material lacks to -1
NuclideIndexConsistent ==
  (api.stage = "loaded" /\ api.op \in {"none", "add_nuclide", "set_densities"})
    => /\ \A k \in Slots(mat) : IndexEntry(mat, mat.nuclide_[k + 1]) = k
       /\ \A g \in NuclideIdx :
            (\A k \in Slots(mat) : mat.nuclide_[k + 1] # g)
              => IndexEntry(mat, g) = C_NONE

AtomUnits(call) ==
  /\ call.op = "set_density"
  /\ call.arg.index = 1
  /\ call.arg.units = "atom/b-cm"

\* C18: set_density(x, "atom/b-cm") and then set_density(d0, "atom/b-cm"),
\* d0 the total atom density before the first call, leave a non-empty
\* material with the atom densities, density_ and density_gpcc_ it had
AtomDensityRoundTrip ==
  (/\ AtomUnits(api)
   /\ AtomUnits(api.prev)
   /\ api.prev.before.nuclide_ # <<>>
   /\ api.arg.density = api.prev.before.density_)
    => /\ mat.atom_density_ = api.prev.before.atom_density_
       /\ mat.density_ = api.prev.before.density_
       /\ mat.density_gpcc_ = api.prev.before.density_gpcc_

ValidUnits == {"atom/b-cm", "g/cm3", "g/cc"}
SetDensityCalled == api.op = "set_density" /\ api.arg.index = 1

\* C19 as stated: set_density on a material without nuclides, whatever the
\* units, and set_density with units other than atom/b-cm, g/cm3, g/cc return
\* an error code (invalid argument for the units of a non-empty material) and
\* leave the material as it was; no call of set_density ends the process
SetDensityRejects ==
  SetDensityCalled =>
    /\ api.stage \notin {"fatal", "fault"}
    /\ api.before.nuclide_ = <<>> =>
         api.ret = OPENMC_E_ALLOCATE /\ mat = api.before
    /\ (api.before.nuclide_ # <<>> /\ api.arg.units \notin ValidUnits) =>
         api.ret = OPENMC_E_INVALID_ARGUMENT /\ mat = api.before

\* C20: set_densities returns a code other than 0 when it is given no
\* nuclide, and the error of the step that failed
SetDensitiesReportsFailure ==
  (api.op = "set_densities" /\ api.arg.index = 1
     /\ api.stage \notin {"fatal", "fault"}) =>
    /\ api.arg.n = 0 => api.ret # 0
    /\ (\E i \in 1..api.arg.n : openmc_load_nuclide(api.arg.name[i]) # 0)
         => api.ret = OPENMC_E_DATA
    /\ mat.nuclide_ = <<>> => api.ret # 0

\* ------------------------------------------------------------------------
\* The volume of a material: openmc_material_set_volume,
\* openmc_material_get_volume and the record Material::to_hdf5 writes.

OPENMC_E_UNASSIGNED == -1

\* Material::to_hdf5 in a continuous-energy run: an attribute or dataset
\* that is not written is the empty sequence
to_hdf5(m) ==
  [volume |-> IF Gt(m.volume_, Zero) THEN <<m.volume_>> ELSE <<>>,
   atom_density |-> m.density_,
   nuclides |-> [i \in DOMAIN m.nuclide_ |-> nuclides[m.nuclide_[i] + 1].name_],
   nuclide_densities |-> m.atom_density_,
   sab_names |-> [i \in DOMAIN m.thermal_tables_ |->
                    thermal_scatt[m.thermal_tables_[i].index_table + 1].name_]]

\* the body of openmc_material_get_volume for an index in bounds; *volume
\* is written only on success
get_volume(m) ==
  IF Ge(m.volume_, Zero) THEN [ret |-> 0, volume |-> <<m.volume_>>]
  ELSE [ret |-> OPENMC_E_UNASSIGNED, volume |-> <<>>]

\* the body of openmc_material_set_volume for an index in bounds
set_volume(m, volume) ==
  IF Ge(volume, Zero) THEN [m |-> [m EXCEPT !.volume_ = volume], ret |-> 0]
  ELSE [m |-> m, ret |-> OPENMC_E_INVALID_ARGUMENT]

VolumeNode == [ApiNodes[1] EXCEPT !.sab = <<>>] @@ [volume |-> Num(5)]
VolumeArgs == {Num(-1), Zero, Num(2)}

InitVolume ==
  /\ GeometryIdle
  /\ micro_xs = <<>>
  /\ micro_photon_xs = <<>>
  /\ material_xs = <<>>
  /\ xs = <<>>
  /\ reg = <<>>
  /\ \/ /\ mat \in LoadedMaterials
                     \cup {init_nuclide_index(finalize(Material(VolumeNode, <<Zero, Zero>>)))}
        /\ api = [NoApi EXCEPT !.stage = "loaded"]
     \/ \E junk \in JunkPairs :
          mat = DefaultMaterial(junk) /\ api = [NoApi EXCEPT !.stage = "extended"]

\* openmc_material_set_volume
SetVolume(index, volume) ==
  /\ ApiCallable
  /\ IF InBounds(index)
       THEN ApiReturns("set_volume", [index |-> index, volume |-> volume],
                       set_volume(mat, volume).m, set_volume(mat, volume).ret)
       ELSE OutOfBounds("set_volume", [index |-> index, volume |-> volume])
  /\ UNCHANGED <<geovars, xsvars, reg>>

\* openmc_material_get_volume; the out-parameter is kept with the arguments
GetVolume(index) ==
  /\ ApiCallable
  /\ IF InBounds(index)
       THEN ApiReturns("get_volume",
                       [index |-> index, volume |-> get_volume(mat).volume],
                       mat, get_volume(mat).ret)
       ELSE OutOfBounds("get_volume", [index |-> index, volume |-> <<>>])
  /\ UNCHANGED <<geovars, xsvars, reg>>

\* Material::to_hdf5 of the material; the group written is kept with the
\* arguments
ToHdf5 ==
  /\ ApiCallable
  /\ ApiReturns("to_hdf5", [group |-> to_hdf5(mat)], mat, 0)
  /\ UNCHANGED <<geovars, xsvars, reg>>

NextVolume ==
  \/ \E index \in MaterialIndices : \E volume \in VolumeArgs :
       SetVolume(index, volume)
  \/ \E index \in MaterialIndices : GetVolume(index)
  \/ ToHdf5

SpecVolume == InitVolume /\ [][NextVolume]_vars

\* C21: the record to_hdf5 writes carries the volume get_volume reports,
\* for every volume set_volume accepted, and it has no volume attribute
\* exactly when get_volume reports that the volume is unassigned.
VolumePersisted ==
  /\ get_volume(mat).ret = 0 => to_hdf5(mat).volume = get_volume(mat).volume
  /\ to_hdf5(mat).volume = <<>> <=> get_volume(mat).ret = OPENMC_E_UNASSIGNED

\* ------------------------------------------------------------------------
\* The cursor of calculate_neutron_xs against a lookup by slot.

\* the walk of lines 667-700 over the slots from i on: the pair each slot
\* is given, and whether the cursor was read at or beyond the end
RECURSIVE CursorWalk(_, _, _, _, _, _)
CursorWalk(m, i, j, check_sab, E, acc) ==
  IF i >= Len(m.nuclide_) THEN [tuples |-> acc, past_end |-> FALSE]
  ELSE IF check_sab /\ j >= Len(m.thermal_tables_)
    THEN [tuples |-> acc, past_end |-> TRUE]
  ELSE CursorWalk(m, i + 1, Bind(m, i, j, check_sab, E).j,
                  Bind(m, i, j, check_sab, E).check_sab, E,
                  Append(acc, <<Bind(m, i, j, check_sab, E).i_sab,
                                Bind(m, i, j, check_sab, E).sab_frac>>))

WalkOf(m, E) == CursorWalk(m, 0, 0, Len(m.thermal_tables_) > 0, E, <<>>)

SortedUniqueSlots(m) ==
  \A k \in DOMAIN m.thermal_tables_ : \A l \in DOMAIN m.thermal_tables_ :
    k < l => m.thermal_tables_[k].index_nuclide
               < m.thermal_tables_[l].index_nuclide

\* C22: for every finalized material whose thermal_tables_ is sorted by slot with
\* unique slots and for every energy, the cursor walk gives each slot the
\* pair a direct lookup by slot gives it (the fraction and, at or below the
\* threshold, the table of the entry with that slot; none and zero when no
\* entry has it), and the cursor is never read past the end of the list.
CursorMatchesLookup ==
  Finalized /\ SortedUniqueSlots(mat) =>
    \A E \in Energies :
      /\ ~WalkOf(mat, E).past_end
      /\ Len(WalkOf(mat, E).tuples) = Len(mat.nuclide_)
      /\ \A i \in Slots(mat) :
           WalkOf(mat, E).tuples[i + 1] = SlotTuple(mat, i, E)

\* a finalized material with two entries, the first of them not on slot 0,
\* one of them switched off by an energy above its threshold and on below it
CursorWaitsWitness ==
  /\ api.stage = "finalized"
  /\ SortedUniqueSlots(mat)
  /\ Len(mat.thermal_tables_) >= 2
  /\ mat.thermal_tables_[1].index_nuclide > 0
  /\ \E i \in Slots(mat) :
       /\ SlotTables(mat, i) # {}
       /\ \E E \in Energies : SlotTuple(mat, i, E)[1] = C_NONE
       /\ \E E \in Energies : SlotTuple(mat, i, E)[1] # C_NONE

\* ------------------------------------------------------------------------
\* Atom percents through finalize.

AtomPercents(node) ==
  /\ AllGe0(node.densities)
  /\ \E i \in DOMAIN node.densities : Gt(node.densities[i], Zero)

\* a_i * x_k = a_k * x_i for all slots i, k
Proportional(a, x) ==
  /\ Len(a) = Len(x)
  /\ \A i \in DOMAIN a : \A k \in DOMAIN a :
       Eq(Mul(a[i], x[k]), Mul(a[k], x[i]))

\* C23: a material given atom percents (all >= 0, one of them > 0) leaves
\* finalize with atom densities proportional to the atom percents of its
\* node, whichever entry is zero, the first included.
AtomPercentsProportional ==
  Finalized /\ AtomPercents(api.node) =>
    Proportional(mat.atom_density_, api.node.densities)

\* ------------------------------------------------------------------------
\* init_thermal run again on its own result.

\* the first call on a loaded material was a set_densities with the names
\* the material already had: init_thermal has run on what it left in finalize
ThermalRerun ==
  /\ api.op = "set_densities"
  /\ api.calls = 1
  /\ InBounds(api.arg.index)
  /\ api.before.thermal_tables_ # <<>>
  /\ mat.nuclide_ = api.before.nuclide_

\* C30: init_thermal run again on its own result, the nuclide list unchanged
\* (as set_densities does after finalize), leaves the same thermal_tables_
\* and raises no fatal error, also when one table is assigned to several
\* nuclide slots.
InitThermalIdempotent ==
  ThermalRerun =>
    /\ ~mat.fatal
    /\ mat.thermal_tables_ = api.before.thermal_tables_

\* ------------------------------------------------------------------------
\* The densities after calls of the boundary API.

\* the body of openmc_material_get_densities for an index in bounds: the
\* arrays handed out are those of the material
get_densities(m) ==
  IF m.nuclide_ # <<>>
    THEN [ret |-> 0, nuclides |-> m.nuclide_, densities |-> m.atom_density_,
          n |-> Len(m.nuclide_)]
    ELSE [ret |-> OPENMC_E_ALLOCATE, nuclides |-> <<>>, densities |-> <<>>,
          n |-> 0]

\* the calls made so far on the material all returned 0
CallsReturnedOk ==
  /\ api.op \in {"set_density", "set_densities", "add_nuclide"}
  /\ api.stage \in {"loaded", "extended"}
  /\ api.ret = 0
  /\ api.prev.ret = 0

\* the last call added a nuclide the material did not have
AddedNewNuclide ==
  /\ api.op = "add_nuclide"
  /\ SlotOf(api.before, api.arg.name) = 0

\* C28: after calls of set_density, set_densities and add_nuclide that all
\* returned 0, nuclide_ and atom_density_ have one length, density_ is the
\* sum of the atom densities, density_gpcc_ is the sum of
\* N_i * AWR_i * M_n / N_A, both up to rounding, and a nuclide that
\* add_nuclide(name, d) has just added is reported by get_densities with the
\* density d.
DensitiesConsistent ==
  CallsReturnedOk =>
    /\ Len(mat.nuclide_) = Len(mat.atom_density_)
    /\ Close(mat.density_, SumSeq(mat.atom_density_))
    /\ Close(mat.density_gpcc_, GpccSum(mat))
    /\ AddedNewNuclide =>
         /\ get_densities(mat).ret = 0
         /\ \E i \in 1..get_densities(mat).n :
              /\ get_densities(mat).nuclides[i] = nuclide_map(api.arg.name)
              /\ Eq(get_densities(mat).densities[i], api.arg.density)

\* ------------------------------------------------------------------------
\* The registry of materials: model::materials, of which only the id_ of
\* every material matters here, and model::material_map from id to index.

OPENMC_E_INVALID_ID == -7
MaxMaterials == 3
MaterialIds == {1, 2, 7}
IdLists == UNION {[1..n -> MaterialIds] : n \in 0..2}

NoRegistry ==
  [materials |-> <<>>, material_map |-> <<>>, read |-> FALSE, fatal |-> FALSE]

\* the second loop of read_materials from material i on
RECURSIVE PopulateMap(_, _)
PopulateMap(r, i) ==
  IF i >= Len(r.materials) THEN r
  ELSE IF r.materials[i + 1] \in DOMAIN r.material_map
    THEN [r EXCEPT !.fatal = TRUE]
  ELSE PopulateMap([r EXCEPT !.material_map =
                      (r.materials[i + 1] :> i) @@ r.material_map], i + 1)

\* read_materials for <material> nodes with the given ids
read_materials(r, ids) ==
  PopulateMap([r EXCEPT !.materials = r.materials \o ids, !.read = TRUE], 0)

openmc_get_material_index(r, id) ==
  IF id \notin DOMAIN r.material_map
    THEN [ret |-> OPENMC_E_INVALID_ID, index |-> 0]
    ELSE [ret |-> 0, index |-> r.material_map[id] + 1]

openmc_material_get_id(r, index) ==
  IF index >= 1 /\ index <= Len(r.materials)
    THEN [ret |-> 0, id |-> r.materials[index]]
    ELSE [ret |-> OPENMC_E_OUT_OF_BOUNDS, id |-> 0]

openmc_material_set_id(r, index, id) ==
  IF index >= 1 /\ index <= Len(r.materials)
    THEN [r EXCEPT !.materials[index] = id,
                   !.material_map = (id :> (index - 1)) @@ r.material_map]
    ELSE r

\* Material() leaves id_ uninitialised: every new material carries junk
openmc_extend_materials(r, junk) ==
  [r EXCEPT !.materials = r.materials \o junk]

\* free_memory_material: every material deleted, both containers cleared
free_memory_material(r) ==
  [r EXCEPT !.materials = <<>>, !.material_map = <<>>, !.read = FALSE]

InitRegistry ==
  /\ GeometryIdle
  /\ micro_xs = <<>>
  /\ micro_photon_xs = <<>>
  /\ material_xs = <<>>
  /\ xs = <<>>
  /\ mat = <<>>
  /\ api = <<>>
  /\ reg = NoRegistry

RegistryRuns == reg # <<>> /\ ~reg.fatal

ReadMaterialIds(ids) ==
  /\ RegistryRuns
  /\ ~reg.read
  /\ reg.materials = <<>>
  /\ reg' = read_materials(reg, ids)
  /\ UNCHANGED <<geovars, xsvars, mat, api>>

ExtendMaterials(n, junk) ==
  /\ RegistryRuns
  /\ Len(reg.materials) + n <= MaxMaterials
  /\ reg' = openmc_extend_materials(reg, junk)
  /\ UNCHANGED <<geovars, xsvars, mat, api>>

SetId(index, id) ==
  /\ RegistryRuns
  /\ reg' = openmc_material_set_id(reg, index, id)
  /\ UNCHANGED <<geovars, xsvars, mat, api>>

FreeMemoryMaterial ==
  /\ RegistryRuns
  /\ reg.materials # <<>>
  /\ reg' = free_memory_material(reg)
  /\ UNCHANGED <<geovars, xsvars, mat, api>>

NextRegistry ==
  \/ \E ids \in IdLists : ReadMaterialIds(ids)
  \/ FreeMemoryMaterial
  \/ \E n \in 1..2 : \E junk \in [1..n -> JunkValues] : ExtendMaterials(n, junk)
  \/ \E index \in 0..MaxMaterials : \E id \in MaterialIds : SetId(index, id)

SpecRegistry == InitRegistry /\ [][NextRegistry]_vars

Carried(r, id) == \E i \in DOMAIN r.materials : r.materials[i] = id

\* C29: after any sequence of read_materials, extend_materials and set_id
\* (and free_memory_material between them) the map and the registry agree: the material at the index the map gives
\* for an id has that id, get_index(id) succeeds exactly for the ids a
\* material carries, and get_id(get_index(id)) = id.
RegistryConsistent ==
  RegistryRuns =>
    /\ \A id \in DOMAIN reg.material_map :
         /\ reg.material_map[id] < Len(reg.materials)
         /\ reg.materials[reg.material_map[id] + 1] = id
    /\ \A id \in MaterialIds \cup JunkValues :
         /\ openmc_get_material_index(reg, id).ret = 0 <=> Carried(reg, id)
         /\ openmc_get_material_index(reg, id).ret = 0 =>
              openmc_material_get_id(
                reg, openmc_get_material_index(reg, id).index).id = id

\* ------------------------------------------------------------------------
\* find_cell with and without the neighbor lists.

\* at most one cell of the universe searched contains the particle
UniqueCellAt(p0) ==
  Cardinality({k \in DOMAIN universes[p0.coord[p0.n_coord - 1].universe].cells_ :
                 contains(universes[p0.coord[p0.n_coord - 1].universe].cells_[k],
                          p0.coord[p0.n_coord - 1].xyz,
                          p0.coord[p0.n_coord - 1].uvw)}) <= 1

\* the contents the neighbor list of a cell is tried with: the empty list,
\* every single fixed cell of any universe, and every two cells of the root
\* universe against the order of the sweep
FixedCells == 0..10
RootCells == Range(universes[root_universe].cells_)
NeighborContents ==
  {<<>>} \cup {<<c>> : c \in FixedCells}
         \cup {<<pr[1], pr[2]>> :
                 pr \in {q \in RootCells \X RootCells : q[2] < q[1]}}

SameFrame(f, g) ==
  /\ f.universe = g.universe
  /\ f.cell = g.cell
  /\ f.lattice = g.lattice
  /\ f.lattice_x = g.lattice_x

SameLocation(a, b) ==
  /\ a.found = b.found
  /\ a.p.n_coord = b.p.n_coord
  /\ \A i \in FrameIdx : SameFrame(a.p.coord[i], b.p.coord[i])
  /\ a.p.material = b.p.material
  /\ a.p.sqrtkT = b.p.sqrtkT
  /\ a.p.cell_instance = b.p.cell_instance

\* the locator on neighbor lists with room for one more entry: find_cell is
\* called while the lists hold fewer than MaxNeighbors entries
Locate(use_neighbor_lists) ==
  /\ TotalNeighbors(nbrs) < MaxNeighbors
  /\ FindCell(use_neighbor_lists)

NextLocate ==
  \/ EndHistory
  \/ \E x \in 0..MaxX, u \in Dirs : Source(x, u)
  \/ \E l \in 1..MAX_COORD : MoveToSurface(l)
  \/ \E l \in 1..MAX_COORD : MoveToLatticeFace(l)
  \/ \E b \in BOOLEAN : Locate(b)
  \/ \E t \in {-1, 1} : CrossLattice(t)

SpecLocate == Init /\ [][NextLocate]_vars

NeighborSearchable ==
  /\ status = "running"
  /\ HasCell(PrepareFrames(p))
  /\ UniqueCellAt(PrepareFrames(p))

\* C24: where at most one cell of the universe searched contains the
\* particle, find_cell with the neighbor lists and find_cell without them,
\* from the same particle, return the same value and leave the same n_coord,
\* per-frame universes, cells and lattice indices, material, sqrt(kT) and
\* cell_instance, whatever the neighbor list of the cell left holds.
NeighborListsAgree ==
  NeighborSearchable =>
    \A list \in NeighborContents \cup {nbrs[PrepareFrames(p).coord[
                                               PrepareFrames(p).n_coord - 1].cell]} :
      SameLocation(
        find_cell(p, TRUE,
                  [nbrs EXCEPT ![PrepareFrames(p).coord[
                                   PrepareFrames(p).n_coord - 1].cell] = list]),
        find_cell(p, FALSE, nbrs))

\* a call with the neighbor lists found the particle in the list of the cell
\* it left and went down at least one level from there
NeighborFoundWitness ==
  /\ last.op = "find_cell"
  /\ last.nb
  /\ last.nbfound
  /\ last.found
  /\ p.n_coord > last.lvl + 1
  /\ Len(nbrs[last.prev]) >= 1

\* ------------------------------------------------------------------------
\* The outputs of distance_to_boundary.

\* the translations the lattices of the frames of the particle reported
ReportedTranslations ==
  {dtb.lr[k].t : k \in {l \in 1..p.n_coord : p.coord[l - 1].lattice # F90_NONE}}

\* C25: distance_to_boundary assigns all its outputs: next_level is within
\* 1..n_coord, at most one kind of crossing is reported (a surface crossed
\* comes with a zero lattice_translation, a non-zero lattice_translation with
\* no surface), and lattice_translation is zero or a value a lattice of a
\* frame of the particle reported, never an unassigned value.
DtbOutputsAssigned ==
  dtb.done =>
    /\ dtb.next_level \in 1..p.n_coord
    /\ dtb.surface_crossed # F90_NONE => dtb.lattice_translation = 0
    /\ dtb.lattice_translation # 0 => dtb.surface_crossed = F90_NONE
    /\ dtb.lattice_translation \in {0} \cup ReportedTranslations

\* ------------------------------------------------------------------------
\* The frames behind n_coord after find_cell.

ResetState(f) ==
  /\ f.cell = C_NONE
  /\ f.lattice = F90_NONE
  /\ ~f.rotated

\* C26: after find_cell returns, with success or with failure, every frame
\* of coord[] at an index >= n_coord is in the reset state (no cell, no
\* lattice id, not rotated): a failed descent leaves no partly written frame
\* behind n_coord.
FramesBeyondReset ==
  last.op = "find_cell" /\ status = "running" =>
    \A i \in FrameIdx : i >= p.n_coord /\ i < MAX_COORD => ResetState(p.coord[i])

\* ------------------------------------------------------------------------
\* The frames find_cell adds and the calls cross_lattice makes.

MaxOf(S) == IF S = {} THEN 0 ELSE Max(S)

\* the universes that can fill a tile of the lattice
LatticeUniverses(lat) ==
  Range(lat.universes)
    \cup (IF lat.outer_ # NO_OUTER_UNIVERSE THEN {lat.outer_} ELSE {})

\* the nesting depth of the fill graph below universe v: the longest chain
\* of cells filled by a universe or a lattice
RECURSIVE NestingDepth(_)
NestingDepth(v) ==
  MaxOf({IF cells[c].type_ = FILL_MATERIAL THEN 0
         ELSE IF cells[c].type_ = FILL_UNIVERSE
           THEN 1 + NestingDepth(cells[c].fill_)
         ELSE 1 + MaxOf({NestingDepth(w) :
                           w \in LatticeUniverses(lattices[cells[c].fill_])}) :
         c \in Range(universes[v].cells_)})

\* the frames the last find_cell added to those it started with
FramesAdded == p.n_coord - (last.lvl + 1)

\* C27: on the acyclic fill graph of the geometry find_cell returns having
\* added at most as many frames as the nesting depth of the graph below the
\* universe it started in, and cross_lattice calls find_cell at most twice.
LocatorBounded ==
  status = "running" =>
    /\ last.op = "find_cell" =>
         /\ FramesAdded >= 0
         /\ FramesAdded <= NestingDepth(p.coord[last.lvl].universe)
    /\ last.op = "cross_lattice" =>
         /\ last.finds \in 1..2
         /\ last.fails <= last.finds

\* a find_cell that went down the whole depth under the universe it started
\* in, at least two levels
DeepestDescentWitness ==
  /\ status = "running"
  /\ last.op = "find_cell"
  /\ last.found
  /\ FramesAdded >= 2
  /\ FramesAdded = NestingDepth(p.coord[last.lvl].universe)

====
